---- MODULE Spec2Model ----
(***************************************************************************)
(* A model of the agnes column-access, sort-order and sort-merge-join      *)
(* core (src/src/access.rs, src/src/join.rs).                              *)
(*                                                                         *)
(* Indices are 0-based as in the Rust code; a column or an index vector is *)
(* a TLA+ sequence, so position idx of a vector v is v[idx + 1].           *)
(***************************************************************************)
EXTENDS Integers, Sequences, FiniteSets, TLC

VARIABLES
    pc,             \* position of the operation under way
    left_key_data,  \* merge_field_data: left key column
    right_key_data, \* merge_field_data: right key column
    left_perm,      \* merge_field_data: sort order of the left key column
    right_perm,     \* merge_field_data: sort order of the right key column
    predicate,      \* merge_field_data: the join predicate
    left_idx,       \* merge_field_data: left cursor
    right_idx,      \* merge_field_data: right cursor
    merge_indices,  \* merge_field_data: the pairs pushed so far
    data,           \* the column (a DataIndex) being sorted / iterated
    compare,        \* which comparator a sort uses
    method,         \* which function of the column / comparator API ran
    order,          \* the Vec<usize> a sort_order* method returned
    cmp_left,       \* comparator call: left operand
    cmp_right,      \* comparator call: right operand
    cmp_out,        \* comparator call: the Ordering returned
    permutation,    \* DataIterator.permutation (Permutation<&[usize]>)
    cur_idx,        \* DataIterator.cur_idx
    requested,      \* the index slice handed to permute
    result,         \* Ok / Err of with_permutation
    items,          \* the Some(..) items next() has returned, in order
    last,           \* what the latest next() call returned
    updates,        \* the slices handed to Permutation::update so far
    closure,        \* the closure handed to filter_perm / map_values
    calls,          \* the arguments the closure was called with, in order
    out,            \* the vector a collecting call returned
    left_view,      \* the left DataView (fields, frames)
    right_view,     \* the right DataView (fields, frames)
    join,           \* the Option<&Join> handed to compute_merged_field_list
    new_frames,     \* compute_merged_frames: the combined frame list
    right_frame_indices, \* compute_merged_frames: the index recorded per right frame
    merged,         \* what compute_merged_field_list returned
    iterations,     \* merge_field_data: passes of the while loop so far
    ds,             \* a DataStore (fields, field_map and the five type maps)
    ins,            \* what the latest DataStore::insert returned
    tables,         \* the rows behind the two views of a join
    joined          \* what sort_merge_join returned

mergeVars == <<left_key_data, right_key_data, left_perm, right_perm, predicate,
               left_idx, right_idx, merge_indices, iterations>>
sortVars == <<compare, order>>
cmpVars == <<cmp_left, cmp_right, cmp_out>>
iterVars == <<permutation, cur_idx, requested, result, items, last>>
funVars == <<closure, calls, out>>
viewVars == <<left_view, right_view, join, new_frames, right_frame_indices, merged>>
storeVars == <<ds, ins>>
joinVars == <<tables, joined>>
extVars == <<updates, funVars, viewVars, storeVars, joinVars>>
vars == <<pc, method, mergeVars, data, sortVars, cmpVars, iterVars, extVars>>

(***************************************************************************)
(* Bounds of the model.                                                    *)
(***************************************************************************)
MaxLen == 3         \* longest key column of a merge
NumKeys == 2        \* distinct existing key values 1..NumKeys
NumFloats == 2      \* finite float values 0..NumFloats
MaxColLen == 3      \* longest column sorted or iterated
MaxPermLen == 3     \* longest index slice handed to permute

(***************************************************************************)
(* Value<T>: Exists(T) or Na.                                              *)
(***************************************************************************)
Na == [ex |-> FALSE, v |-> 0]
Exists(x) == [ex |-> TRUE, v |-> x]
exists(value) == value.ex

\* DataIndex::get_datum(idx), unwrapped (idx < len)
get_datum(column, idx) == column[idx + 1]

\* slice indexing perm[idx]
At(perm, idx) == perm[idx + 1]

\* Ord::cmp of a totally ordered payload type (u64)
OrdCmp(a, b) == IF a < b THEN "Less" ELSE IF a = b THEN "Equal" ELSE "Greater"

\* Value<&T>::cmp / dt_cmp for a totally ordered T: Na below every existing value
ValueCmp(l, r) ==
    CASE ~l.ex /\ ~r.ex -> "Equal"
      [] ~l.ex /\ r.ex  -> "Less"
      [] l.ex /\ ~r.ex  -> "Greater"
      [] OTHER          -> OrdCmp(l.v, r.v)

dt_cmp(l, r) == ValueCmp(l, r)

\* sequences over S of length lo..hi
SeqsOf(S, lo, hi) == UNION {[1..n -> S] : n \in lo..hi}

\* the bijections of 0..n-1, as index vectors
PermsOf(n) == {p \in [1..n -> 0..(n - 1)] : \A i, j \in 1..n : p[i] = p[j] => i = j}

(***************************************************************************)
(* access.rs: the float comparators.  An f32 / f64 is NAN, INFINITY or a   *)
(* finite number Num(n).                                                   *)
(***************************************************************************)
NAN == [cls |-> "nan", n |-> 0]
INFINITY == [cls |-> "inf", n |-> 0]
Num(n) == [cls |-> "num", n |-> n]
is_nan(x) == x.cls = "nan"

\* PartialOrd::partial_cmp of a float: None as soon as one operand is NaN
partial_cmp(a, b) ==
    CASE is_nan(a) \/ is_nan(b) -> "None"
      [] a.cls = "inf" /\ b.cls = "inf" -> "Equal"
      [] a.cls = "inf" -> "Greater"
      [] b.cls = "inf" -> "Less"
      [] OTHER -> OrdCmp(a.n, b.n)

sort_f32(left, right) ==
    LET c == partial_cmp(left, right) IN
    IF c # "None" THEN c
    ELSE IF is_nan(left) /\ ~is_nan(right) THEN "Less" ELSE "Greater"

sort_f32_values(left, right) ==
    CASE ~left.ex /\ ~right.ex -> "Equal"
      [] ~left.ex /\ right.ex  -> "Less"
      [] left.ex /\ ~right.ex  -> "Greater"
      [] OTHER                 -> sort_f32(left.v, right.v)

\* mutant: the NaN branch answers for the wrong operand
sort_f64_nan_last(left, right) ==
    LET c == partial_cmp(left, right) IN
    IF c # "None" THEN c
    ELSE IF is_nan(left) /\ ~is_nan(right) THEN "Greater" ELSE "Less"

sort_f64(left, right) ==
    LET c == partial_cmp(left, right) IN
    IF c # "None" THEN c
    ELSE IF is_nan(left) /\ ~is_nan(right) THEN "Less" ELSE "Greater"

sort_f64_values(left, right) ==
    CASE ~left.ex /\ ~right.ex -> "Equal"
      [] ~left.ex /\ right.ex  -> "Less"
      [] left.ex /\ ~right.ex  -> "Greater"
      [] OTHER                 -> sort_f64(left.v, right.v)

(***************************************************************************)
(* access.rs: sort_order, sort_order_unstable, sort_order_by,              *)
(* sort_order_unstable_by.                                                 *)
(***************************************************************************)
\* the comparator closure handed to sort_by / sort_unstable_by
Compare(kind, l, r) ==
    CASE kind = "cmp" -> ValueCmp(l, r)
      [] kind = "sort_f32_values" -> sort_f32_values(l, r)
      [] OTHER -> sort_f64_values(l, r)

\* |&left, &right| compare(get_datum(left).unwrap(), get_datum(right).unwrap())
ByIndex(kind, column, left, right) ==
    Compare(kind, get_datum(column, left), get_datum(column, right))

\* mutant: an element is also moved left past the elements it compares Equal to
RECURSIVE insert_tail_past_equal(_, _, _, _)
insert_tail_past_equal(kind, column, sorted, x) ==
    IF sorted = <<>> \/ ByIndex(kind, column, x, sorted[Len(sorted)]) = "Greater"
    THEN Append(sorted, x)
    ELSE Append(insert_tail_past_equal(kind, column, SubSeq(sorted, 1, Len(sorted) - 1), x),
                sorted[Len(sorted)])

\* slice::sort_by on a short slice: each element is moved left past the
\* elements it compares Less than (a stable insertion sort)
RECURSIVE insert_tail(_, _, _, _)
insert_tail(kind, column, sorted, x) ==
    IF sorted = <<>> \/ ByIndex(kind, column, x, sorted[Len(sorted)]) # "Less"
    THEN Append(sorted, x)
    ELSE Append(insert_tail(kind, column, SubSeq(sorted, 1, Len(sorted) - 1), x),
                sorted[Len(sorted)])

RECURSIVE sort_by(_, _, _)
sort_by(kind, column, n) ==
    IF n = 0 THEN <<>>
    ELSE insert_tail(kind, column, sort_by(kind, column, n - 1), n - 1)

\* slice::sort_unstable_by: some order in which no element is Less than an
\* earlier one; which of them is not specified
sort_unstable_by(kind, column) ==
    {p \in PermsOf(Len(column)) :
        \A i, j \in 1..Len(column) :
            i < j => ByIndex(kind, column, p[j], p[i]) # "Less"}

\* mutant: the closure compares right against left, so the order descends
sort_order_descending(column) ==
    LET asc == sort_by("cmp", column, Len(column)) IN
    [i \in 1..Len(asc) |-> asc[Len(asc) + 1 - i]]

sort_order(column) == sort_by("cmp", column, Len(column))
sort_order_unstable(column) == sort_unstable_by("cmp", column)
sort_order_by(column, kind) == sort_by(kind, column, Len(column))
sort_order_unstable_by(column, kind) == sort_unstable_by(kind, column)

(***************************************************************************)
(* join.rs: Predicate and PredResults.                                     *)
(***************************************************************************)
Predicates == {"Equal", "LessThan", "LessThanEqual", "GreaterThan", "GreaterThanEqual"}

is_equality_pred(p) == p = "Equal" \/ p = "GreaterThanEqual" \/ p = "LessThanEqual"
is_greater_than_pred(p) == p = "GreaterThan" \/ p = "GreaterThanEqual"
is_less_than_pred(p) == p = "LessThan" \/ p = "LessThanEqual"

Add == [add |-> TRUE, left |-> FALSE, right |-> FALSE]
Advance(l, r) == [add |-> FALSE, left |-> l, right |-> r]

\* mutant: a left value below the right one advances no cursor under Equal
apply_no_flag(p, l, r) ==
    LET c == dt_cmp(l, r) IN
    CASE p = "Equal" ->
            (CASE c = "Less" -> Advance(FALSE, FALSE)
               [] c = "Equal" -> Add
               [] OTHER -> Advance(FALSE, TRUE))
      [] p = "LessThan" ->
            (IF c = "Less" THEN Add ELSE Advance(FALSE, TRUE))
      [] p = "LessThanEqual" ->
            (IF c = "Greater" THEN Advance(FALSE, TRUE) ELSE Add)
      [] p = "GreaterThan" ->
            (IF c = "Greater" THEN Add ELSE Advance(TRUE, FALSE))
      [] OTHER ->
            (IF c = "Less" THEN Advance(TRUE, FALSE) ELSE Add)

\* mutant: LessThan moves the left cursor when the pair does not satisfy it
apply_left_flag(p, l, r) ==
    LET c == dt_cmp(l, r) IN
    CASE p = "Equal" ->
            (CASE c = "Less" -> Advance(TRUE, FALSE)
               [] c = "Equal" -> Add
               [] OTHER -> Advance(FALSE, TRUE))
      [] p = "LessThan" ->
            (IF c = "Less" THEN Add ELSE Advance(TRUE, FALSE))
      [] p = "LessThanEqual" ->
            (IF c = "Greater" THEN Advance(FALSE, TRUE) ELSE Add)
      [] p = "GreaterThan" ->
            (IF c = "Greater" THEN Add ELSE Advance(TRUE, FALSE))
      [] OTHER ->
            (IF c = "Less" THEN Advance(TRUE, FALSE) ELSE Add)

apply(p, l, r) ==
    LET c == dt_cmp(l, r) IN
    CASE p = "Equal" ->
            (CASE c = "Less" -> Advance(TRUE, FALSE)
               [] c = "Equal" -> Add
               [] OTHER -> Advance(FALSE, TRUE))
      [] p = "LessThan" ->
            (IF c = "Less" THEN Add ELSE Advance(FALSE, TRUE))
      [] p = "LessThanEqual" ->
            (IF c = "Greater" THEN Advance(FALSE, TRUE) ELSE Add)
      [] p = "GreaterThan" ->
            (IF c = "Greater" THEN Add ELSE Advance(TRUE, FALSE))
      [] OTHER ->
            (IF c = "Less" THEN Advance(TRUE, FALSE) ELSE Add)

(***************************************************************************)
(* join.rs: merge_field_data, one action per kind of loop iteration.       *)
(***************************************************************************)
lval(sorted_idx) == get_datum(left_key_data, At(left_perm, sorted_idx))
rval(sorted_idx) == get_datum(right_key_data, At(right_perm, sorted_idx))

\* while end < perm.len() && val == value(end) { end += 1 }
RECURSIVE RunEnd(_, _, _, _)
RunEnd(column, perm, val, end) ==
    IF end < Len(perm) /\ val = get_datum(column, At(perm, end))
    THEN RunEnd(column, perm, val, end + 1)
    ELSE end

\* the sorted indices from..to-1, in order (a subset vector)
Range(from, to) == [i \in 1..(to - from) |-> from + i - 1]

\* mutant: the equal run of the left side is not collected
LeftEqEndNoRun == left_idx + 1

\* end of the left subset's equal run (left_eq_end)
LeftEqEnd ==
    IF is_equality_pred(predicate)
    THEN RunEnd(left_key_data, left_perm, lval(left_idx), left_idx + 1)
    ELSE left_idx + 1

\* end of the right subset's equal run (right_eq_end)
RightEqEnd ==
    IF is_equality_pred(predicate)
    THEN RunEnd(right_key_data, right_perm, rval(right_idx), right_idx + 1)
    ELSE right_idx + 1

\* mutant: the left subset is not extended for the greater-than predicates
LeftSubsetNoExtend == Range(left_idx, LeftEqEnd)

\* left_subset after the optional extension to the end of the left side
LeftSubset ==
    Range(left_idx, IF is_greater_than_pred(predicate) THEN Len(left_perm) ELSE LeftEqEnd)

\* mutant: the right subset is extended to the end for every predicate
RightSubsetToEnd == Range(right_idx, Len(right_perm))

\* right_subset after the optional extension to the end of the right side
RightSubset ==
    Range(right_idx, IF is_less_than_pred(predicate) THEN Len(right_perm) ELSE RightEqEnd)

\* mutant: the inner loop pushes without looking at rval(ridx).exists()
RECURSIVE PushRowUnchecked(_, _, _)
PushRowUnchecked(lidx, rs, k) ==
    IF k > Len(rs) THEN <<>>
    ELSE <<(<<At(left_perm, lidx), At(right_perm, rs[k])>>)>> \o PushRowUnchecked(lidx, rs, k + 1)

\* inner loop: for ridx in right_subset { if rval(ridx).exists() { push } }
RECURSIVE PushRow(_, _, _)
PushRow(lidx, rs, k) ==
    IF k > Len(rs) THEN <<>>
    ELSE (IF exists(rval(rs[k]))
          THEN <<(<<At(left_perm, lidx), At(right_perm, rs[k])>>)>>
          ELSE <<>>) \o PushRow(lidx, rs, k + 1)

\* outer loop: for lidx in left_subset { if lval(lidx).exists() { inner loop } }
RECURSIVE CrossProduct(_, _, _)
CrossProduct(ls, rs, k) ==
    IF k > Len(ls) THEN <<>>
    ELSE (IF exists(lval(ls[k])) THEN PushRow(ls[k], rs, 1) ELSE <<>>)
         \o CrossProduct(ls, rs, k + 1)

KeyValues == {Na} \cup {Exists(k) : k \in 1..NumKeys}
KeyColumns == SeqsOf(KeyValues, 1, MaxLen)

\* the DeptId columns of the join tests: the employee table and the
\* department tables [1,2,3,4], [1,2] and [2]
EmpDeptId == [i \in 1..7 |-> Exists(<<1, 2, 1, 1, 3, 4, 4>>[i])]
DeptIds == {[i \in 1..4 |-> Exists(i)], [i \in 1..2 |-> Exists(i)], <<Exists(2)>>}

idleMerge ==
    /\ left_key_data = <<>> /\ right_key_data = <<>>
    /\ left_perm = <<>> /\ right_perm = <<>>
    /\ predicate = "Equal"
    /\ left_idx = 0 /\ right_idx = 0
    /\ merge_indices = <<>>
    /\ iterations = 0
idleSort == compare = "none" /\ order = <<>>
idleCmp == cmp_left = Na /\ cmp_right = Na /\ cmp_out = "none"
NoPermutation == [some |-> FALSE, perm |-> <<>>]
Ok == [ok |-> TRUE, expected |-> 0, actual |-> 0]
LengthMismatch(e, a) == [ok |-> FALSE, expected |-> e, actual |-> a]
None == [some |-> FALSE, value |-> Na]
Some(x) == [some |-> TRUE, value |-> x]

idleIter ==
    /\ permutation = NoPermutation
    /\ cur_idx = 0
    /\ requested = <<>>
    /\ result = Ok
    /\ items = <<>>
    /\ last = None

(***************************************************************************)
(* store.rs: DataStore.                                                    *)
(***************************************************************************)
FieldTypes == {"Unsigned", "Signed", "Text", "Boolean", "Float"}

\* HashMap::new()
EmptyMap == [k \in {} |-> <<>>]

\* DataStore::empty
empty ==
    [fields |-> <<>>, field_map |-> EmptyMap,
     unsigned |-> EmptyMap, signed |-> EmptyMap, text |-> EmptyMap,
     boolean |-> EmptyMap, float |-> EmptyMap]

\* the type map of a field type
TypeData(store, ty) ==
    CASE ty = "Unsigned" -> store.unsigned
      [] ty = "Signed" -> store.signed
      [] ty = "Text" -> store.text
      [] ty = "Boolean" -> store.boolean
      [] OTHER -> store.float

\* Result<T> of the per-type parsers and of parse
ParseOk(x) == [ok |-> TRUE, value |-> x]
ParseErr == [ok |-> FALSE, value |-> Na]

\* parse_unsigned, parse_signed, the text closure, str::parse::<bool>,
\* str::parse::<f64>, on the strings "1" and "true"
ParseAs(ty, value_str) ==
    CASE ty = "Unsigned" -> IF value_str = "1" THEN ParseOk(1) ELSE ParseErr
      [] ty = "Signed" -> IF value_str = "1" THEN ParseOk(1) ELSE ParseErr
      [] ty = "Text" -> ParseOk(value_str)
      [] ty = "Boolean" -> IF value_str = "true" THEN ParseOk(TRUE) ELSE ParseErr
      [] OTHER -> IF value_str = "1" THEN ParseOk(1) ELSE ParseErr

\* parse: an empty string is a missing value, anything else goes to f
parse(value_str, ty) ==
    IF value_str = "" THEN ParseOk(Na)
    ELSE LET r == ParseAs(ty, value_str) IN
         IF r.ok THEN ParseOk(Exists(r.value)) ELSE ParseErr

\* insert_value: push to the column of k, or start it with one element
insert_value(h, k, v) ==
    IF k \in DOMAIN h
    THEN [h EXCEPT ![k] = Append(@, v)]
    ELSE [x \in DOMAIN h \cup {k} |-> IF x = k THEN <<v>> ELSE h[x]]

\* DataStore::add_field
add_field(store, field) ==
    IF field.ident \notin DOMAIN store.field_map
    THEN LET index == Len(store.fields) IN
         [store EXCEPT
            !.fields = Append(@, [ident |-> field.ident, ty |-> field.ty, index |-> index]),
            !.field_map = [x \in DOMAIN @ \cup {field.ident} |->
                              IF x = field.ident THEN index ELSE @[x]]]
    ELSE store

\* the store with value v pushed into the type map of ty under ident
WithValue(store, ty, ident, v) ==
    CASE ty = "Unsigned" -> [store EXCEPT !.unsigned = insert_value(@, ident, v)]
      [] ty = "Signed" -> [store EXCEPT !.signed = insert_value(@, ident, v)]
      [] ty = "Text" -> [store EXCEPT !.text = insert_value(@, ident, v)]
      [] ty = "Boolean" -> [store EXCEPT !.boolean = insert_value(@, ident, v)]
      [] OTHER -> [store EXCEPT !.float = insert_value(@, ident, v)]

\* DataStore::insert: the store afterwards and whether Ok(()) was returned
insert_into(store, field, value_str) ==
    LET added == add_field(store, field)
        parsed == parse(value_str, field.ty) IN
    IF parsed.ok
    THEN [store |-> WithValue(added, field.ty, field.ident, parsed.value), ok |-> TRUE]
    ELSE [store |-> added, ok |-> FALSE]

\* Option<usize>
NoLen == [some |-> FALSE, len |-> 0]
SomeLen(n) == [some |-> TRUE, len |-> n]

\* the keys of a map in the order its iterator visits them
KeySeq(h) ==
    CHOOSE q \in [1..Cardinality(DOMAIN h) -> DOMAIN h] :
        \A i, k \in 1..Cardinality(DOMAIN h) : q[i] = q[k] => i = k

\* is_hm_homogeneous
is_hm_homogeneous(h) ==
    LET q == KeySeq(h)
        target_len == IF Len(q) = 0 THEN 0 ELSE Len(h[q[1]])
        all_same_len == \A i \in 1..Len(q) : Len(h[q[i]]) = target_len IN
    IF all_same_len THEN SomeLen(target_len) ELSE NoLen

\* is_hm_homogeneous_with
is_hm_homogeneous_with(h, value) ==
    LET x == is_hm_homogeneous(h) IN
    IF ~x.some THEN NoLen
    ELSE IF x.len = 0 /\ value # 0 THEN SomeLen(value)
    ELSE IF (value = 0 /\ x.len # 0) \/ x.len = value THEN SomeLen(x.len)
    ELSE NoLen

\* Option::and_then over is_hm_homogeneous_with
AndThenWith(opt, h) == IF opt.some THEN is_hm_homogeneous_with(h, opt.len) ELSE NoLen

\* is_homogeneous with the float map left out of the chain
is_homogeneous_no_float(store) ==
    AndThenWith(AndThenWith(AndThenWith(
        is_hm_homogeneous(store.unsigned),
        store.signed), store.text), store.boolean).some

\* DataStore::is_homogeneous
is_homogeneous(store) ==
    AndThenWith(AndThenWith(AndThenWith(AndThenWith(
        is_hm_homogeneous(store.unsigned),
        store.signed), store.text), store.boolean), store.float).some

\* DataStore::get_field_data, as the Option it returns
get_field_data(store, ident) ==
    IF ident \notin DOMAIN store.field_map THEN [some |-> FALSE, data |-> <<>>]
    ELSE LET ty == store.fields[store.field_map[ident] + 1].ty
             h == TypeData(store, ty) IN
         IF ident \in DOMAIN h THEN [some |-> TRUE, data |-> h[ident]]
         ELSE [some |-> FALSE, data |-> <<>>]

NoInsert == [ok |-> TRUE, calls |-> 0]
idleStore == ds = empty /\ ins = NoInsert

idleFun == closure = <<>> /\ calls = <<>> /\ out = <<>>
NoView == [fields |-> <<>>, frames |-> <<>>]
NoJoin == [some |-> FALSE, predicate |-> "Equal", left_ident |-> "", right_ident |-> ""]
NotMerged == [ok |-> TRUE, right_idents |-> <<>>, new_fields |-> <<>>, collisions |-> <<>>]
NoTables == <<>>
NotJoined == [status |-> "none", name |-> "", collisions |-> <<>>, ds |-> <<>>]
idleJoin == tables = NoTables /\ joined = NotJoined
idleView ==
    /\ left_view = NoView /\ right_view = NoView
    /\ join = NoJoin
    /\ new_frames = <<>>
    /\ right_frame_indices = <<>>
    /\ merged = NotMerged
idleExt == updates = <<>> /\ idleFun /\ idleView /\ idleStore /\ idleJoin

InitMerge ==
    /\ pc = "merge"
    /\ \/ left_key_data \in KeyColumns /\ right_key_data \in KeyColumns
       \/ left_key_data = EmpDeptId /\ right_key_data \in DeptIds
    /\ left_perm = sort_order(left_key_data)
    /\ right_perm = sort_order(right_key_data)
    /\ predicate \in Predicates
    /\ left_idx = 0 /\ right_idx = 0
    /\ merge_indices = <<>>
    /\ iterations = 0
    /\ data = <<>>
    /\ method = "merge_field_data"
    /\ idleSort /\ idleCmp /\ idleIter /\ idleExt

InLoop ==
    /\ pc = "merge"
    /\ left_idx < Len(left_perm)
    /\ right_idx < Len(right_perm)

\* PredResults::Add arm
MergeAdd ==
    /\ InLoop
    /\ apply(predicate, lval(left_idx), rval(right_idx)).add
    /\ merge_indices' = merge_indices \o CrossProduct(LeftSubset, RightSubset, 1)
    /\ left_idx' = CASE predicate = "Equal" -> LeftEqEnd
                     [] predicate = "LessThanEqual" -> LeftEqEnd
                     [] predicate = "LessThan" -> left_idx + 1
                     [] OTHER -> left_idx
    /\ right_idx' = CASE predicate = "Equal" -> RightEqEnd
                      [] predicate = "GreaterThanEqual" -> RightEqEnd
                      [] predicate = "GreaterThan" -> right_idx + 1
                      [] OTHER -> right_idx
    /\ iterations' = iterations + 1
    /\ UNCHANGED <<pc, left_key_data, right_key_data, left_perm, right_perm, predicate>>
    /\ UNCHANGED <<method, data, sortVars, cmpVars, iterVars>>
    /\ UNCHANGED extVars

\* PredResults::Advance arm
MergeAdvance ==
    /\ InLoop
    /\ LET res == apply(predicate, lval(left_idx), rval(right_idx)) IN
        /\ ~res.add
        /\ left_idx' = IF res.left THEN left_idx + 1 ELSE left_idx
        /\ right_idx' = IF res.right THEN right_idx + 1 ELSE right_idx
    /\ iterations' = iterations + 1
    /\ UNCHANGED <<pc, left_key_data, right_key_data, left_perm, right_perm, predicate,
                   merge_indices>>
    /\ UNCHANGED <<method, data, sortVars, cmpVars, iterVars>>
    /\ UNCHANGED extVars

\* the loop condition fails: merge_field_data returns merge_indices
MergeReturn ==
    /\ pc = "merge"
    /\ ~(left_idx < Len(left_perm) /\ right_idx < Len(right_perm))
    /\ pc' = "merged"
    /\ UNCHANGED <<method, mergeVars, data, sortVars, cmpVars, iterVars>>
    /\ UNCHANGED extVars

NextMerge == MergeAdd \/ MergeAdvance \/ MergeReturn

SpecMerge == InitMerge /\ [][NextMerge]_vars

(***************************************************************************)
(* The sort_order* methods applied to a column.                            *)
(***************************************************************************)
Floats == {NAN, INFINITY} \cup {Num(n) : n \in 0..NumFloats}
FloatValues == {Na} \cup {Exists(f) : f \in Floats}

\* the u64 column of tests::sort_order_na
SortTestColumn == <<Exists(2), Exists(5), Na, Exists(1), Exists(8)>>

InitSort ==
    /\ pc = "sort"
    /\ \/ compare = "cmp" /\ data \in SeqsOf(KeyValues, 0, MaxColLen) \cup {SortTestColumn}
       \/ /\ compare \in {"sort_f32_values", "sort_f64_values"}
          /\ data \in SeqsOf(FloatValues, 0, MaxColLen)
    /\ method = "none"
    /\ order = <<>>
    /\ idleMerge /\ idleCmp /\ idleIter /\ idleExt

\* SortOrder::sort_order (DType: Ord)
SortOrder ==
    /\ pc = "sort" /\ compare = "cmp"
    /\ order' = sort_order(data)
    /\ method' = "sort_order"
    /\ pc' = "sorted"
    /\ UNCHANGED <<compare, data, mergeVars, cmpVars, iterVars>>
    /\ UNCHANGED extVars

\* SortOrderUnstable::sort_order_unstable (DType: Ord)
SortOrderUnstable ==
    /\ pc = "sort" /\ compare = "cmp"
    /\ order' \in sort_order_unstable(data)
    /\ method' = "sort_order_unstable"
    /\ pc' = "sorted"
    /\ UNCHANGED <<compare, data, mergeVars, cmpVars, iterVars>>
    /\ UNCHANGED extVars

\* SortOrderComparator::sort_order_by
SortOrderBy ==
    /\ pc = "sort"
    /\ order' = sort_order_by(data, compare)
    /\ method' = "sort_order_by"
    /\ pc' = "sorted"
    /\ UNCHANGED <<compare, data, mergeVars, cmpVars, iterVars>>
    /\ UNCHANGED extVars

\* SortOrderUnstableComparator::sort_order_unstable_by
SortOrderUnstableBy ==
    /\ pc = "sort"
    /\ order' \in sort_order_unstable_by(data, compare)
    /\ method' = "sort_order_unstable_by"
    /\ pc' = "sorted"
    /\ UNCHANGED <<compare, data, mergeVars, cmpVars, iterVars>>
    /\ UNCHANGED extVars

NextSort == SortOrder \/ SortOrderUnstable \/ SortOrderBy \/ SortOrderUnstableBy

SpecSort == InitSort /\ [][NextSort]_vars

(***************************************************************************)
(* The float comparators applied to a pair of operands.                    *)
(***************************************************************************)
InitCmp ==
    /\ pc = "compare"
    /\ cmp_left \in FloatValues
    /\ cmp_right \in FloatValues
    /\ cmp_out = "none"
    /\ method = "none"
    /\ data = <<>>
    /\ idleMerge /\ idleSort /\ idleIter /\ idleExt

CallSortF32 ==
    /\ pc = "compare" /\ cmp_left.ex /\ cmp_right.ex
    /\ cmp_out' = sort_f32(cmp_left.v, cmp_right.v)
    /\ method' = "sort_f32"
    /\ pc' = "compared"
    /\ UNCHANGED <<cmp_left, cmp_right, data, mergeVars, sortVars, iterVars>>
    /\ UNCHANGED extVars

CallSortF32Values ==
    /\ pc = "compare"
    /\ cmp_out' = sort_f32_values(cmp_left, cmp_right)
    /\ method' = "sort_f32_values"
    /\ pc' = "compared"
    /\ UNCHANGED <<cmp_left, cmp_right, data, mergeVars, sortVars, iterVars>>
    /\ UNCHANGED extVars

CallSortF64 ==
    /\ pc = "compare" /\ cmp_left.ex /\ cmp_right.ex
    /\ cmp_out' = sort_f64(cmp_left.v, cmp_right.v)
    /\ method' = "sort_f64"
    /\ pc' = "compared"
    /\ UNCHANGED <<cmp_left, cmp_right, data, mergeVars, sortVars, iterVars>>
    /\ UNCHANGED extVars

CallSortF64Values ==
    /\ pc = "compare"
    /\ cmp_out' = sort_f64_values(cmp_left, cmp_right)
    /\ method' = "sort_f64_values"
    /\ pc' = "compared"
    /\ UNCHANGED <<cmp_left, cmp_right, data, mergeVars, sortVars, iterVars>>
    /\ UNCHANGED extVars

NextCmp == CallSortF32 \/ CallSortF32Values \/ CallSortF64 \/ CallSortF64Values

SpecCmp == InitCmp /\ [][NextCmp]_vars

(***************************************************************************)
(* access.rs: DataIterator over a column, plain or permuted.               *)
(***************************************************************************)
\* Permutation::is_permuted
is_permuted(p) == p.some

\* Permutation::len, unwrapped
perm_len(p) == Len(p.perm)

\* mutant: the permutation is not applied
map_index_identity(p, req) == req

\* Permutation::map_index
map_index(p, req) == IF p.some THEN At(p.perm, req) ELSE req

\* permutation.iter().max().unwrap()
RECURSIVE MaxOf(_)
MaxOf(s) ==
    IF Len(s) = 1 THEN s[1]
    ELSE LET m == MaxOf(Tail(s)) IN IF s[1] > m THEN s[1] ELSE m

\* mutant: the bound check lets an index equal to len() through
RejectsOffByOne(column, p) == Len(p) > 0 /\ MaxOf(p) > Len(column)

\* the check with_permutation makes before it builds the iterator
Rejects(column, p) == Len(p) > 0 /\ MaxOf(p) >= Len(column)

InitIter ==
    /\ pc = "column"
    /\ data \in SeqsOf(KeyValues, 0, MaxColLen)
    /\ method = "none"
    /\ idleMerge /\ idleSort /\ idleCmp /\ idleIter /\ idleExt

\* DataIndex::iter -> DataIterator::new
Iter ==
    /\ pc = "column"
    /\ permutation' = NoPermutation
    /\ cur_idx' = 0
    /\ method' = "iter"
    /\ pc' = "iterating"
    /\ UNCHANGED <<requested, result, items, last, data, mergeVars, sortVars, cmpVars>>
    /\ UNCHANGED extVars

\* DataIndex::permute -> DataIterator::with_permutation
Permute ==
    /\ pc = "column"
    /\ \E p \in SeqsOf(0..MaxColLen, 0, MaxPermLen) :
        /\ requested' = p
        /\ IF Rejects(data, p)
           THEN /\ result' = LengthMismatch(Len(data), Len(p))
                /\ pc' = "failed"
                /\ UNCHANGED <<permutation, cur_idx>>
           ELSE /\ result' = Ok
                /\ permutation' = [some |-> TRUE, perm |-> p]
                /\ cur_idx' = 0
                /\ pc' = "iterating"
    /\ method' = "permute"
    /\ UNCHANGED <<items, last, data, mergeVars, sortVars, cmpVars>>
    /\ UNCHANGED extVars

\* Iterator::next for DataIterator
NextItem ==
    /\ pc \in {"iterating", "exhausted"}
    /\ IF \/ is_permuted(permutation) /\ cur_idx < perm_len(permutation)
          \/ ~is_permuted(permutation) /\ cur_idx < Len(data)
       THEN IF map_index(permutation, cur_idx) < Len(data)
            THEN /\ last' = Some(get_datum(data, map_index(permutation, cur_idx)))
                 /\ items' = Append(items, get_datum(data, map_index(permutation, cur_idx)))
                 /\ cur_idx' = cur_idx + 1
                 /\ pc' = pc
            ELSE \* get_datum returns Err and unwrap panics
                 /\ pc' = "panicked"
                 /\ UNCHANGED <<last, items, cur_idx>>
       ELSE /\ last' = None
            /\ pc' = "exhausted"
            /\ UNCHANGED <<items, cur_idx>>
    /\ UNCHANGED <<method, permutation, requested, result, data, mergeVars, sortVars, cmpVars>>
    /\ UNCHANGED extVars

NextIter == Iter \/ Permute \/ NextItem

SpecIter == InitIter /\ [][NextIter]_vars

Spec == SpecMerge

(***************************************************************************)
(* Properties of merge_field_data.                                         *)
(***************************************************************************)
\* the relation a predicate stands for, on two existing keys
Holds(p, a, b) ==
    CASE p = "Equal" -> a = b
      [] p = "LessThan" -> a < b
      [] p = "LessThanEqual" -> a <= b
      [] p = "GreaterThan" -> a > b
      [] OTHER -> a >= b

\* the physical index pairs whose keys both exist and satisfy the predicate
Matching ==
    {pr \in (0..(Len(left_key_data) - 1)) \X (0..(Len(right_key_data) - 1)) :
        /\ get_datum(left_key_data, pr[1]).ex
        /\ get_datum(right_key_data, pr[2]).ex
        /\ Holds(predicate, get_datum(left_key_data, pr[1]).v,
                 get_datum(right_key_data, pr[2]).v)}

PairSet == {merge_indices[k] : k \in 1..Len(merge_indices)}

HasNa(column) == \E i \in 1..Len(column) : ~column[i].ex

\* C1: every index pair pushed by merge_field_data, for every predicate, has
\* an existing key at the left index and an existing key at the right index.
C1_NoMissingKeyInPairs ==
    \A k \in 1..Len(merge_indices) :
        /\ exists(get_datum(left_key_data, merge_indices[k][1]))
        /\ exists(get_datum(right_key_data, merge_indices[k][2]))

\* C1 witness: a finished merge of two columns that both hold a missing key,
\* under a predicate other than Equal, that returned pairs.
C1_Witness ==
    /\ pc = "merged"
    /\ predicate = "GreaterThanEqual"
    /\ HasNa(left_key_data) /\ HasNa(right_key_data)
    /\ Len(merge_indices) >= 2

\* C2: with predicate Equal the returned pairs are exactly the pairs (l, r)
\* with both keys existing and left[l] = right[r], each once.
C2_EqualJoinExact ==
    (pc = "merged" /\ predicate = "Equal") =>
        /\ PairSet = Matching
        /\ Len(merge_indices) = Cardinality(Matching)

\* C2 witness: the employee table joined to departments [1,2,3,4] gives
\* 7 pairs, one per left row.
C2_Witness ==
    /\ pc = "merged" /\ predicate = "Equal"
    /\ left_key_data = EmpDeptId /\ Len(right_key_data) = 4
    /\ Len(merge_indices) = 7
    /\ \A l \in 0..6 : \E k \in 1..7 : merge_indices[k][1] = l

\* C3: with an inequality predicate R the returned pairs are exactly the
\* pairs (l, r) with both keys existing and left[l] R right[r], and their
\* number is the number of such pairs.
C3_InequalityJoinExact ==
    (pc = "merged" /\ predicate # "Equal") =>
        /\ PairSet = Matching
        /\ Len(merge_indices) = Cardinality(Matching)

\* C3 witness: a finished LessThanEqual merge of two columns that both hold
\* a missing key and a duplicated key, with its 4 pairs.
C3_Witness ==
    /\ pc = "merged" /\ predicate = "LessThanEqual"
    /\ left_key_data = <<Na, Exists(1), Exists(1)>>
    /\ right_key_data = <<Exists(1), Na, Exists(1)>>
    /\ Len(merge_indices) = 4

(***************************************************************************)
(* Properties of the sort_order* methods.                                  *)
(***************************************************************************)
IsBijection(ord, n) ==
    /\ Len(ord) = n
    /\ \A i \in 0..(n - 1) : \E k \in 1..n : ord[k] = i
    /\ \A k \in 1..n : ord[k] \in 0..(n - 1)

\* the position of index idx in ord
PosOf(ord, idx) == CHOOSE k \in 1..Len(ord) : ord[k] = idx

NonDecreasing(ord) ==
    \A k \in 1..(Len(ord) - 1) :
        Compare(compare, get_datum(data, ord[k]), get_datum(data, ord[k + 1])) # "Greater"

\* C4: each sort_order* method returns a bijection on 0..len(), and the
\* values addressed by successive indices never compare Greater under the
\* comparator in use.
C4_SortedBijection ==
    pc = "sorted" => IsBijection(order, Len(data)) /\ NonDecreasing(order)

\* C5: sort_order and sort_order_by keep indices i < j whose values compare
\* Equal under the comparator in use in that order.
C5_StableKeepsEqualOrder ==
    (pc = "sorted" /\ method \in {"sort_order", "sort_order_by"}) =>
        \A i, j \in 0..(Len(data) - 1) :
            (i < j /\ Compare(compare, get_datum(data, i), get_datum(data, j)) = "Equal")
                => PosOf(order, i) < PosOf(order, j)

\* C5 witness: sort_order_by(sort_f64_values) on a column whose equal values
\* (two Na, two 1.0) are moved by the sort.
C5_Witness ==
    /\ pc = "sorted" /\ method = "sort_order_by" /\ compare = "sort_f64_values"
    /\ data = <<Exists(Num(1)), Na, Exists(Num(1))>>
    /\ order = <<1, 0, 2>>

\* C6: when the column holds a missing value, element 0 of the default
\* sort_order() is the index of a missing value.
C6_MissingSortsFirst ==
    (pc = "sorted" /\ method = "sort_order" /\ HasNa(data)) =>
        ~exists(get_datum(data, order[1]))

\* C6 witness: the column of tests::sort_order_na and its expected order.
C6_Witness ==
    /\ pc = "sorted" /\ method = "sort_order"
    /\ data = SortTestColumn
    /\ order = <<2, 3, 0, 1, 4>>

(***************************************************************************)
(* Properties of the float comparators.                                    *)
(***************************************************************************)
\* Missing < NaN < finite numbers < +infinity
Rank(val) ==
    CASE ~val.ex -> 0
      [] val.v.cls = "nan" -> 1
      [] val.v.cls = "num" -> 2
      [] OTHER -> 3

Expected(l, r) ==
    IF Rank(l) # Rank(r) THEN OrdCmp(Rank(l), Rank(r))
    ELSE IF Rank(l) = 2 THEN OrdCmp(l.v.n, r.v.n)
    ELSE "Equal"

Reversed(o) == CASE o = "Less" -> "Greater" [] o = "Greater" -> "Less" [] OTHER -> o

BothNaN == cmp_left.ex /\ cmp_right.ex /\ is_nan(cmp_left.v) /\ is_nan(cmp_right.v)

\* the function that ran, applied to the operands swapped
SwappedOut ==
    CASE method = "sort_f32_values" -> sort_f32_values(cmp_right, cmp_left)
      [] method = "sort_f64_values" -> sort_f64_values(cmp_right, cmp_left)
      [] method = "sort_f32" -> sort_f32(cmp_right.v, cmp_left.v)
      [] OTHER -> sort_f64(cmp_right.v, cmp_left.v)

\* C7: for every operand pair other than two NaNs, sort_f64_values and
\* sort_f32_values order Missing < NaN < non-NaN numbers ascending, and
\* swapping the operands reverses the result.
C7_FloatOrder ==
    (pc = "compared" /\ method \in {"sort_f32_values", "sort_f64_values"} /\ ~BothNaN) =>
        /\ cmp_out = Expected(cmp_left, cmp_right)
        /\ SwappedOut = Reversed(cmp_out)

\* C7 witness: sort_f64_values(NaN, 0.0) was called and answered Less.
C7_Witness ==
    /\ pc = "compared" /\ method = "sort_f64_values"
    /\ cmp_left = Exists(NAN) /\ cmp_right = Exists(Num(0))
    /\ cmp_out = "Less"

\* C8: comparing two existing NaN values returns Equal, in either operand
\* order, for sort_f64 / sort_f64_values / sort_f32 / sort_f32_values.
C8_NaNEqualsNaN ==
    (pc = "compared" /\ BothNaN) => (cmp_out = "Equal" /\ SwappedOut = "Equal")

(***************************************************************************)
(* Properties of DataIterator.                                             *)
(***************************************************************************)
\* the indices the iterator is to visit: the slice handed to permute, or
\* 0..len()-1 for iter()
Visited ==
    IF method = "permute" THEN requested ELSE [i \in 1..Len(data) |-> i - 1]

\* C9: the iterator yields column[P[i]] as its i-th item, never more than
\* len(P) items (len() items when unpermuted), and returns None only after
\* all of them.
C9_IteratorFollowsPermutation ==
    (pc \in {"iterating", "exhausted"}) =>
        /\ Len(items) <= Len(Visited)
        /\ \A i \in 1..Len(items) : items[i] = get_datum(data, Visited[i])
        /\ Len(items) > 0 /\ pc = "iterating" => last = Some(items[Len(items)])
        /\ pc = "exhausted" => (Len(items) = Len(Visited) /\ last = None)

\* C9 witness: a permuted iterator over a column with a missing value, run
\* to its end over a slice that repeats an index.
C9_Witness ==
    /\ pc = "exhausted" /\ method = "permute"
    /\ data = <<Exists(1), Na, Exists(2)>>
    /\ requested = <<2, 0, 2>>
    /\ items = <<Exists(2), Exists(1), Exists(2)>>

\* C10: permute fails with LengthMismatch exactly when some index of the
\* slice is >= len(); otherwise it returns an iterator; a failed call
\* produces no iterator.
C10_PermuteBoundCheck ==
    method = "permute" =>
        LET bad == \E i \in 1..Len(requested) : requested[i] >= Len(data) IN
        /\ bad <=> pc = "failed"
        /\ bad <=> result = LengthMismatch(Len(data), Len(requested))
        /\ ~bad <=> result = Ok
        /\ ~bad => (pc \in {"iterating", "exhausted"}
                    /\ permutation = [some |-> TRUE, perm |-> requested])
        /\ pc = "failed" => (permutation = NoPermutation /\ items = <<>> /\ ~ENABLED NextItem)

\* C10 witness: permute failed on a slice whose largest index equals len().
C10_Witness ==
    /\ pc = "failed" /\ method = "permute"
    /\ Len(data) = 2
    /\ requested = <<0, 2>>
    /\ result = LengthMismatch(2, 2)

\* ---------------------------------------------------------------------
\* Permutation<Vec<usize>>: default() followed by update() calls
\* ---------------------------------------------------------------------

\* bounds of the update machine: slice length and number of update calls
MaxUpdLen == 2
MaxUpdates == 3

\* mutant: update stores the new slice and forgets the previous permutation
update_replace(p, new_permutation) == [some |-> TRUE, perm |-> new_permutation]

\* Permutation::update: compose with the previous permutation, or copy the
\* slice when there is none
update(p, new_permutation) ==
    IF p.some
    THEN [some |-> TRUE,
          perm |-> [k \in 1..Len(new_permutation) |-> At(p.perm, new_permutation[k])]]
    ELSE [some |-> TRUE, perm |-> new_permutation]

\* prev_perm[new_idx] indexes out of bounds: the call panics
UpdatePanics(p, new_permutation) ==
    p.some /\ \E k \in 1..Len(new_permutation) : new_permutation[k] >= Len(p.perm)

\* Permutation::default()
InitPerm ==
    /\ pc = "perm"
    /\ method = "update"
    /\ data = <<>>
    /\ permutation = NoPermutation
    /\ cur_idx = 0 /\ requested = <<>> /\ result = Ok /\ items = <<>> /\ last = None
    /\ idleMerge /\ idleSort /\ idleCmp /\ idleExt

\* one update call that returns
Update ==
    /\ pc = "perm"
    /\ Len(updates) < MaxUpdates
    /\ \E new_permutation \in SeqsOf(0..(MaxUpdLen - 1), 0, MaxUpdLen) :
          /\ ~UpdatePanics(permutation, new_permutation)
          /\ permutation' = update(permutation, new_permutation)
          /\ updates' = Append(updates, new_permutation)
    /\ UNCHANGED <<pc, method, data, cur_idx, requested, result, items, last>>
    /\ UNCHANGED <<mergeVars, sortVars, cmpVars, funVars, viewVars>>
    /\ UNCHANGED <<storeVars, joinVars>>

\* one update call whose slice holds an index the previous permutation
\* does not have
UpdatePanic ==
    /\ pc = "perm"
    /\ Len(updates) < MaxUpdates
    /\ \E new_permutation \in SeqsOf(0..(MaxUpdLen - 1), 0, MaxUpdLen) :
          UpdatePanics(permutation, new_permutation)
    /\ pc' = "panicked"
    /\ UNCHANGED <<method, data, iterVars, mergeVars, sortVars, cmpVars, extVars>>

NextPerm == Update \/ UpdatePanic

SpecPerm == InitPerm /\ [][NextPerm]_vars

\* p1[p2[...pk[i]]] for the recorded slices p1..pk
RECURSIVE Composed(_, _)
Composed(us, i) ==
    IF Len(us) = 0 THEN i
    ELSE Composed(SubSeq(us, 1, Len(us) - 1), At(us[Len(us)], i))

\* C11: a default Permutation is the identity (is_permuted false, no
\* length, map_index(i) = i); after updates p1..pk that each stay below
\* the previous slice's length, map_index(i) = p1[p2[...pk[i]]] for every
\* i < len(pk) and the length is len(pk).
C11_UpdateComposes ==
    method = "update" =>
        /\ updates = <<>> =>
              /\ ~is_permuted(permutation)
              /\ permutation = NoPermutation
              /\ \A i \in 0..MaxUpdLen : map_index(permutation, i) = i
        /\ updates # <<>> =>
              LET pk == updates[Len(updates)] IN
              /\ is_permuted(permutation)
              /\ perm_len(permutation) = Len(pk)
              /\ \A i \in 0..(Len(pk) - 1) :
                    map_index(permutation, i) = Composed(updates, i)

\* C11 witness: three updates whose composition is none of the slices.
C11_Witness ==
    /\ method = "update" /\ pc = "perm"
    /\ updates = <<<<1, 0>>, <<1, 1>>, <<0, 1>>>>
    /\ permutation = [some |-> TRUE, perm |-> <<0, 0>>]

\* ---------------------------------------------------------------------
\* FilterPerm::filter_perm
\* ---------------------------------------------------------------------

\* the closures a caller can hand over: any function of the datum
Closures == [KeyValues -> BOOLEAN]

\* mutant: a missing datum is dropped without consulting the predicate
SelectedExisting(pred, value) == exists(value) /\ pred[value]

\* predicate(self.get_datum(idx).unwrap())
Selected(pred, value) == pred[value]

\* a column and a predicate; order = (0..self.len()), nothing visited yet
InitFilter ==
    /\ pc = "filtering"
    /\ method = "filter_perm"
    /\ data \in SeqsOf(KeyValues, 0, MaxColLen)
    /\ closure \in Closures
    /\ calls = <<>> /\ out = <<>>
    /\ cur_idx = 0
    /\ permutation = NoPermutation
    /\ requested = <<>> /\ result = Ok /\ items = <<>> /\ last = None
    /\ updates = <<>>
    /\ idleMerge /\ idleSort /\ idleCmp /\ idleView /\ idleStore /\ idleJoin

\* the filter adaptor looks at the next index of order: it calls the
\* predicate on the datum and keeps the index when the predicate holds
FilterVisit ==
    /\ pc = "filtering"
    /\ cur_idx < Len(data)
    /\ LET value == get_datum(data, cur_idx) IN
          /\ calls' = Append(calls, value)
          /\ out' = IF Selected(closure, value) THEN Append(out, cur_idx) ELSE out
    /\ cur_idx' = cur_idx + 1
    /\ UNCHANGED <<pc, method, data, closure, permutation, requested, result, items, last>>
    /\ UNCHANGED <<mergeVars, sortVars, cmpVars, updates, viewVars>>
    /\ UNCHANGED <<storeVars, joinVars>>

\* order is exhausted: collect() returns the vector
FilterReturn ==
    /\ pc = "filtering"
    /\ cur_idx >= Len(data)
    /\ pc' = "filtered"
    /\ UNCHANGED <<method, data, iterVars, mergeVars, sortVars, cmpVars, extVars>>

NextFilter == FilterVisit \/ FilterReturn

SpecFilter == InitFilter /\ [][NextFilter]_vars

\* the indices below n whose datum satisfies the closure
Satisfying(n) == {i \in 0..(n - 1) : closure[get_datum(data, i)]}

\* C12: filter_perm returns a strictly increasing index vector holding
\* exactly the indices i in 0..len() whose datum (a missing one included)
\* satisfies the predicate, and the predicate is called once per index, in
\* index order.
C12_FilterPermExact ==
    method = "filter_perm" =>
        /\ \A a, b \in 1..Len(out) : a < b => out[a] < out[b]
        /\ {out[a] : a \in 1..Len(out)} = Satisfying(cur_idx)
        /\ calls = [k \in 1..cur_idx |-> get_datum(data, k - 1)]
        /\ pc = "filtered" => cur_idx = Len(data)

\* C12 witness: a finished call whose predicate accepts the missing datum
\* and one of two existing ones.
C12_Witness ==
    /\ method = "filter_perm" /\ pc = "filtered"
    /\ data = <<Na, Exists(1), Exists(2)>>
    /\ closure[Na] /\ ~closure[Exists(1)] /\ closure[Exists(2)]
    /\ out = <<0, 2>>

\* ---------------------------------------------------------------------
\* compute_merged_frames and compute_merged_field_list
\* ---------------------------------------------------------------------

\* bounds of the view machine: fields per view, frames per view
MaxFields == 2
MaxFrames == 2

\* field names: a key name, two plain names, and the two names the
\* non-equality renaming of the key produces
FieldNames == {"K", "A", "B", "K" \o ".0", "K" \o ".1"}

\* data stores a frame can wrap
Stores == {"s1", "s2", "s3"}

\* DataFrame::has_same_store
has_same_store(frame, other) == frame = other

\* mutant: the search accepts a frame of another store
FindFrameOther(frames, right_frame) ==
    LET hits == {i \in 0..(Len(frames) - 1) : ~has_same_store(get_datum(frames, i), right_frame)} IN
    IF hits = {} THEN [some |-> FALSE, idx |-> 0]
    ELSE [some |-> TRUE, idx |-> CHOOSE i \in hits : \A j \in hits : i <= j]

\* new_frames.iter().enumerate().find(|(_, frame)| frame.has_same_store(right_frame))
FindFrame(frames, right_frame) ==
    LET hits == {i \in 0..(Len(frames) - 1) : has_same_store(get_datum(frames, i), right_frame)} IN
    IF hits = {} THEN [some |-> FALSE, idx |-> 0]
    ELSE [some |-> TRUE, idx |-> CHOOSE i \in hits : \A j \in hits : i <= j]

\* mutant: every right frame is appended, equivalent or not
merge_frames_keep_all(frames, indices, rest) ==
    [new_frames |-> frames \o rest,
     right_frame_indices |-> indices \o [i \in 1..Len(rest) |-> Len(frames) + i - 1]]

\* the loop of compute_merged_frames over the right frames still to visit
RECURSIVE merge_frames(_, _, _)
merge_frames(frames, indices, rest) ==
    IF rest = <<>> THEN [new_frames |-> frames, right_frame_indices |-> indices]
    ELSE LET found == FindFrame(frames, Head(rest)) IN
         IF found.some
         THEN merge_frames(frames, Append(indices, found.idx), Tail(rest))
         ELSE merge_frames(Append(frames, Head(rest)), Append(indices, Len(frames)), Tail(rest))

compute_merged_frames(l, r) == merge_frames(l.frames, <<>>, r.frames)

\* RFieldIdent and ViewField
NotRenamed == [some |-> FALSE, name |-> ""]
Renamed(name) == [some |-> TRUE, name |-> name]
ViewField(ident, rename, frame_idx) ==
    [rident |-> [ident |-> ident, rename |-> rename], frame_idx |-> frame_idx]

\* IndexMap<FieldIdent, ViewField>, kept as the sequence of its entries
Entry(key, field) == [ident |-> key, field |-> field]
KeyIndex(fields, key) == CHOOSE i \in 1..Len(fields) : fields[i].ident = key
contains_key(fields, key) == \E i \in 1..Len(fields) : fields[i].ident = key
get(fields, key) == fields[KeyIndex(fields, key)].field

\* mutant: a new entry goes to the front of the map
insert_front(fields, key, field) ==
    IF contains_key(fields, key)
    THEN [fields EXCEPT ![KeyIndex(fields, key)] = Entry(key, field)]
    ELSE <<Entry(key, field)>> \o fields

\* IndexMap::insert: replace the value in place, or append a new entry
insert(fields, key, field) ==
    IF contains_key(fields, key)
    THEN [fields EXCEPT ![KeyIndex(fields, key)] = Entry(key, field)]
    ELSE Append(fields, Entry(key, field))

\* IndexMap::swap_remove: the last entry takes the removed entry's place
swap_remove(fields, key) ==
    IF ~contains_key(fields, key) THEN fields
    ELSE LET i == KeyIndex(fields, key)
             n == Len(fields) IN
         [k \in 1..(n - 1) |-> IF k = i THEN fields[n] ELSE fields[k]]

\* format!("{}.0", ident) and format!("{}.1", ident)
LeftName(ident) == ident \o ".0"
RightName(ident) == ident \o ".1"

\* mutant: the right field's own frame index is kept
MappedFrameUnmapped(right_frame_mapping, right_field) == right_field.frame_idx

\* right_frame_mapping[right_field.frame_idx]
MappedFrame(right_frame_mapping, right_field) ==
    get_datum(right_frame_mapping, right_field.frame_idx)

\* mutant: any right field named like the join's right key passes as the key
IsSharedJoinKeyByRight(j, right_fieldname) ==
    j.some /\ j.right_ident = right_fieldname

\* mutant: a right field named like either key of the join passes as the key
IsSharedJoinKeyEither(j, right_fieldname) ==
    j.some /\ (j.left_ident = right_fieldname \/ j.right_ident = right_fieldname)

\* join.left_ident == join.right_ident && &join.left_ident == right_fieldname
IsSharedJoinKey(j, right_fieldname) ==
    j.some /\ j.left_ident = j.right_ident /\ j.left_ident = right_fieldname

\* mutant: the key fields are renamed under every predicate
NeedsRenameAlways(j) == TRUE

\* join.predicate != Predicate::Equal
NeedsRename(j) == j.predicate # "Equal"

\* both key fields are kept: the left one moves to "<key>.0", the right one
\* is added as "<key>.1"
RenameKeys(acc, right_fieldname, right_field, right_frame_mapping, j) ==
    LET left_key_field == get(acc.new_fields, j.left_ident)
        new_left_ident_name == LeftName(j.left_ident)
        renamed_left == [left_key_field EXCEPT !.rident.rename = Renamed(new_left_ident_name)]
        inserted == insert(acc.new_fields, new_left_ident_name, renamed_left)
        removed == swap_remove(inserted, j.left_ident)
        new_right_ident_name == RightName(j.right_ident) IN
    [acc EXCEPT
        !.right_idents = Append(@, right_fieldname),
        !.new_fields = insert(removed, new_right_ident_name,
                              ViewField(right_field.rident.ident, Renamed(new_right_ident_name),
                                        MappedFrame(right_frame_mapping, right_field)))]

\* one pass of the loop over right.fields
FieldStep(acc, entry, right_frame_mapping, j) ==
    LET right_fieldname == entry.ident
        right_field == entry.field IN
    IF contains_key(acc.new_fields, right_fieldname)
    THEN IF IsSharedJoinKey(j, right_fieldname)
         THEN IF NeedsRename(j)
              THEN RenameKeys(acc, right_fieldname, right_field, right_frame_mapping, j)
              ELSE acc
         ELSE [acc EXCEPT !.field_collisions = Append(@, right_fieldname)]
    ELSE [acc EXCEPT
            !.right_idents = Append(@, right_fieldname),
            !.new_fields = insert(@, right_fieldname,
                                  ViewField(right_field.rident.ident, right_field.rident.rename,
                                            MappedFrame(right_frame_mapping, right_field)))]

RECURSIVE FieldLoop(_, _, _, _)
FieldLoop(acc, rest, right_frame_mapping, j) ==
    IF rest = <<>> THEN acc
    ELSE FieldLoop(FieldStep(acc, Head(rest), right_frame_mapping, j), Tail(rest),
                   right_frame_mapping, j)

\* Result<(Vec<FieldIdent>, Vec<(FieldIdent, ViewField)>)>
MergedOk(right_idents, new_fields) ==
    [ok |-> TRUE, right_idents |-> right_idents, new_fields |-> new_fields, collisions |-> <<>>]
FieldCollision(names) ==
    [ok |-> FALSE, right_idents |-> <<>>, new_fields |-> <<>>, collisions |-> names]

compute_merged_field_list(l, r, right_frame_mapping, j) ==
    LET acc == FieldLoop([new_fields |-> l.fields, right_idents |-> <<>>,
                          field_collisions |-> <<>>],
                         r.fields, right_frame_mapping, j) IN
    IF acc.field_collisions = <<>>
    THEN MergedOk(acc.right_idents, acc.new_fields)
    ELSE FieldCollision(acc.field_collisions)

\* sequences of n distinct elements of S
InjSeqs(S, n) == {s \in [1..n -> S] : \A i, k \in 1..n : s[i] = s[k] => i = k}

\* a view over one store: any distinct field names, every field in frame 0
NameViews(store) ==
    {[fields |-> [i \in 1..Len(names) |->
                    Entry(names[i], ViewField(names[i], NotRenamed, 0))],
      frames |-> <<store>>] :
        names \in UNION {InjSeqs(FieldNames, n) : n \in 0..MaxFields}}

\* a view over several frames: fields named names[1..n], each in any frame
FrameViews(names) ==
    UNION {{[fields |-> [i \in 1..n |->
                           Entry(names[i], ViewField(names[i], NotRenamed, frame_idx[i]))],
             frames |-> frames] :
                frame_idx \in [1..n -> 0..(Len(frames) - 1)]} :
           n \in 1..Len(names), frames \in SeqsOf(Stores, 1, MaxFrames)}

Join(predicate_, left_ident, right_ident) ==
    [some |-> TRUE, predicate |-> predicate_, left_ident |-> left_ident,
     right_ident |-> right_ident]

FieldIdents(view) == {view.fields[i].ident : i \in 1..Len(view.fields)}

\* no join (a plain view merge), or a join over a field of each side
JoinsOver(l, r) ==
    {NoJoin} \cup {Join(p, a, b) : p \in Predicates, a \in FieldIdents(l), b \in FieldIdents(r)}

\* two views and a join: either single-frame views with any field names, or
\* multi-frame views joined on a key name both sides have
InitViews ==
    /\ pc = "views"
    /\ method = "merge_views"
    /\ \/ /\ left_view \in NameViews("s1")
          /\ right_view \in NameViews("s2")
          /\ join \in JoinsOver(left_view, right_view)
       \/ /\ left_view \in FrameViews(<<"K", "A">>)
          /\ right_view \in FrameViews(<<"K", "B">>)
          /\ join \in {Join(p, "K", "K") : p \in {"Equal", "LessThan"}}
    /\ new_frames = <<>>
    /\ right_frame_indices = <<>>
    /\ merged = NotMerged
    /\ data = <<>>
    /\ updates = <<>>
    /\ idleMerge /\ idleSort /\ idleCmp /\ idleIter /\ idleFun /\ idleStore /\ idleJoin

\* let (new_frames, right_frame_indices) = compute_merged_frames(left, right)
ComputeMergedFrames ==
    /\ pc = "views"
    /\ LET frames == compute_merged_frames(left_view, right_view) IN
          /\ new_frames' = frames.new_frames
          /\ right_frame_indices' = frames.right_frame_indices
    /\ pc' = "framed"
    /\ UNCHANGED <<left_view, right_view, join, merged>>
    /\ UNCHANGED <<method, data, mergeVars, sortVars, cmpVars, iterVars, updates, funVars>>
    /\ UNCHANGED <<storeVars, joinVars>>

\* compute_merged_field_list(left, right, &right_frame_indices, join)
ComputeMergedFieldList ==
    /\ pc = "framed"
    /\ merged' = compute_merged_field_list(left_view, right_view, right_frame_indices, join)
    /\ pc' = "merged"
    /\ UNCHANGED <<left_view, right_view, join, new_frames, right_frame_indices>>
    /\ UNCHANGED <<method, data, mergeVars, sortVars, cmpVars, iterVars, updates, funVars>>
    /\ UNCHANGED <<storeVars, joinVars>>

NextViews == ComputeMergedFrames \/ ComputeMergedFieldList

SpecViews == InitViews /\ [][NextViews]_vars

\* the keys of a field list, in order
Idents(fields) == [i \in 1..Len(fields) |-> fields[i].ident]

\* the join names one key name for both sides
SharedKey(name) == join.some /\ join.left_ident = name /\ join.right_ident = name

\* the first position of a name in a sequence of names
NamePos(names, name) == CHOOSE i \in 1..Len(names) : names[i] = name

\* C13: with no field name on both sides, compute_merged_field_list
\* succeeds with exactly a + b entries, the left fields in left order
\* followed by the right fields in right order, and right_idents lists
\* every right name.
C13_DisjointNamesConcatenate ==
    (pc = "merged" /\ FieldIdents(left_view) \cap FieldIdents(right_view) = {}) =>
        /\ merged.ok
        /\ Len(merged.new_fields) = Len(left_view.fields) + Len(right_view.fields)
        /\ Idents(merged.new_fields) = Idents(left_view.fields) \o Idents(right_view.fields)
        /\ merged.right_idents = Idents(right_view.fields)

\* C13 witness: two fields on each side, no name in common.
C13_Witness ==
    /\ pc = "merged"
    /\ Idents(left_view.fields) = <<"A", "K">>
    /\ Idents(right_view.fields) = <<"B", "K.1">>
    /\ merged.ok
    /\ Idents(merged.new_fields) = <<"A", "K", "B", "K.1">>
    /\ merged.right_idents = <<"B", "K.1">>

\* the right positions whose name equals a left field name and is not the
\* join key both sides share
CollidesWithLeft(i) ==
    LET name == right_view.fields[i].ident IN
    name \in FieldIdents(left_view) /\ ~SharedKey(name)

\* C14 as stated: the call fails with FieldCollision exactly when some
\* right field name other than a shared join key equals a left field name,
\* and the error lists exactly those right names, each once.
C14_CollisionIffSharedName ==
    pc = "merged" =>
        LET hits == {i \in 1..Len(right_view.fields) : CollidesWithLeft(i)} IN
        /\ ~merged.ok <=> hits # {}
        /\ {merged.collisions[k] : k \in 1..Len(merged.collisions)}
              = {right_view.fields[i].ident : i \in hits}
        /\ \A k, n \in 1..Len(merged.collisions) :
              merged.collisions[k] = merged.collisions[n] => k = n

\* the shared key is renamed: both sides have it and the predicate is not Equal
KeyRenamed ==
    /\ join.some /\ join.left_ident = join.right_ident
    /\ join.predicate # "Equal"
    /\ join.left_ident \in FieldIdents(left_view)
    /\ join.left_ident \in FieldIdents(right_view)

\* a right field that follows a renamed shared key and bears one of the two
\* names the renaming has just produced
CollidesWithRenamed(i) ==
    /\ KeyRenamed
    /\ i > NamePos(Idents(right_view.fields), join.right_ident)
    /\ right_view.fields[i].ident \in {join.left_ident \o ".0", join.right_ident \o ".1"}

\* C14 amended: FieldCollision is returned exactly when some right field
\* name other than a shared join key equals a left field name, or follows
\* a renamed shared key in right order and equals one of its two new
\* names; the error lists exactly those right names, each once.
C14_CollisionExact ==
    pc = "merged" =>
        LET hits == {i \in 1..Len(right_view.fields) :
                        CollidesWithLeft(i) \/ CollidesWithRenamed(i)} IN
        /\ ~merged.ok <=> hits # {}
        /\ {merged.collisions[k] : k \in 1..Len(merged.collisions)}
              = {right_view.fields[i].ident : i \in hits}
        /\ \A k, n \in 1..Len(merged.collisions) :
              merged.collisions[k] = merged.collisions[n] => k = n

\* C14 witness: a right field named like the renamed left key follows the
\* shared key and is reported, though no left field bears its name.
C14_Witness ==
    /\ pc = "merged"
    /\ join = Join("LessThan", "K", "K")
    /\ Idents(left_view.fields) = <<"K", "A">>
    /\ Idents(right_view.fields) = <<"K", "K.0">>
    /\ merged = FieldCollision(<<"K.0">>)

\* the join key is a field of both views, under one name
JoinOnSharedKey ==
    /\ join.some /\ join.left_ident = join.right_ident
    /\ join.left_ident \in FieldIdents(left_view)
    /\ join.left_ident \in FieldIdents(right_view)

\* the key is the only name the two views have in common
OnlyKeyShared ==
    FieldIdents(left_view) \cap FieldIdents(right_view) = {join.left_ident}

\* a sequence without the entries equal to x
RECURSIVE Without(_, _)
Without(s, x) ==
    IF s = <<>> THEN <<>>
    ELSE IF Head(s) = x THEN Without(Tail(s), x)
    ELSE <<Head(s)>> \o Without(Tail(s), x)

\* C15: when both sides name the join key K and the predicate is Equal,
\* the left key stays under K with its left frame index, no right key field
\* is added, K is not in right_idents and K is no collision; with no other
\* shared name the result has a + b - 1 fields.
C15_EqualJoinKeepsLeftKey ==
    (pc = "merged" /\ JoinOnSharedKey /\ join.predicate = "Equal") =>
        LET K == join.left_ident IN
        /\ \A k \in 1..Len(merged.collisions) : merged.collisions[k] # K
        /\ \A k \in 1..Len(merged.right_idents) : merged.right_idents[k] # K
        /\ OnlyKeyShared =>
              /\ merged.ok
              /\ Len(merged.new_fields)
                    = Len(left_view.fields) + Len(right_view.fields) - 1
              /\ Idents(merged.new_fields)
                    = Idents(left_view.fields) \o Without(Idents(right_view.fields), K)
              /\ \A i \in 1..Len(left_view.fields) :
                    merged.new_fields[i] = left_view.fields[i]
              /\ merged.right_idents = Without(Idents(right_view.fields), K)

\* C15 witness: an equijoin on K of two two-field views gives three fields.
C15_Witness ==
    /\ pc = "merged"
    /\ join = Join("Equal", "K", "K")
    /\ Idents(left_view.fields) = <<"A", "K">>
    /\ Idents(right_view.fields) = <<"K", "B">>
    /\ merged.ok
    /\ Idents(merged.new_fields) = <<"A", "K", "B">>
    /\ merged.right_idents = <<"B">>

\* the entry of a field list under a key that is present
EntryOf(fields, key) == fields[CHOOSE i \in 1..Len(fields) : fields[i].ident = key]

\* C16: when both sides name the join key K and the predicate is not
\* Equal, the left key is renamed "K.0", the right key is added as "K.1",
\* no field named K remains and K is in right_idents; with no other shared
\* name the result has a + b fields.
C16_NonEqualJoinRenamesKeys ==
    (pc = "merged" /\ JoinOnSharedKey /\ join.predicate # "Equal" /\ OnlyKeyShared) =>
        LET K == join.left_ident
            names == Idents(merged.new_fields) IN
        /\ merged.ok
        /\ Len(merged.new_fields) = Len(left_view.fields) + Len(right_view.fields)
        /\ \A i \in 1..Len(names) : names[i] # K
        /\ \E i \in 1..Len(names) : names[i] = K \o ".0"
        /\ \E i \in 1..Len(names) : names[i] = K \o ".1"
        /\ \E i \in 1..Len(merged.right_idents) : merged.right_idents[i] = K

\* no two frames of the list wrap the same store
PairwiseDistinct(frames) ==
    \A i, k \in 1..Len(frames) :
        has_same_store(frames[i], frames[k]) => i = k

\* C17: the combined frame list starts with the left frames in left order;
\* a frame appended after them wraps a store of the right view that no
\* earlier frame of the list wraps; when the left frames are pairwise
\* distinct, so is the combined list.
C17_FramesWithoutRepetition ==
    pc \in {"framed", "merged"} =>
        LET nl == Len(left_view.frames) IN
        /\ Len(new_frames) >= nl
        /\ SubSeq(new_frames, 1, nl) = left_view.frames
        /\ \A k \in (nl + 1)..Len(new_frames) :
              /\ \E i \in 1..Len(right_view.frames) : new_frames[k] = right_view.frames[i]
              /\ \A e \in 1..(k - 1) : ~has_same_store(new_frames[e], new_frames[k])
        /\ \A i \in 1..Len(right_view.frames) :
              \E k \in 1..Len(new_frames) : has_same_store(new_frames[k], right_view.frames[i])
        /\ PairwiseDistinct(left_view.frames) => PairwiseDistinct(new_frames)

\* C17 witness: the right view brings one store the left view has and one
\* it has not; only the second is appended.
C17_Witness ==
    /\ pc = "framed"
    /\ left_view.frames = <<"s1", "s2">>
    /\ right_view.frames = <<"s2", "s3">>
    /\ new_frames = <<"s1", "s2", "s3">>

\* the name under which right field i is shown in the merged list
ShownAs(i) ==
    LET name == right_view.fields[i].ident IN
    IF KeyRenamed /\ name = join.right_ident THEN name \o ".1" ELSE name

\* the merged list holds an entry that stems from right field i: the field
\* was added, and the entry under its name still carries its identifier
FromRight(i) ==
    LET name == right_view.fields[i].ident
        shown == ShownAs(i) IN
    /\ \E k \in 1..Len(merged.right_idents) : merged.right_idents[k] = name
    /\ \E k \in 1..Len(merged.new_fields) : merged.new_fields[k].ident = shown
    /\ EntryOf(merged.new_fields, shown).field.rident
          = [ident |-> right_view.fields[i].field.rident.ident,
             rename |-> IF shown = name THEN right_view.fields[i].field.rident.rename
                        ELSE [some |-> TRUE, name |-> shown]]

\* C18 as stated: every right-side field's frame reference in the merged
\* field list is its right frame index plus the left view's frame count.
C18_RightFrameOffset ==
    (pc = "merged" /\ merged.ok) =>
        \A i \in 1..Len(right_view.fields) :
            FromRight(i) =>
                EntryOf(merged.new_fields, ShownAs(i)).field.frame_idx
                    = right_view.fields[i].field.frame_idx + Len(left_view.frames)

\* C18 amended: every right-side field's frame reference in the merged
\* field list is the index compute_merged_frames recorded for its right
\* frame: the position, in the combined frame list, of the first frame
\* with the same store. It is the right frame index plus the left frame
\* count when no two frames of the two views share a store.
C18_RightFrameRemapped ==
    (pc = "merged" /\ merged.ok) =>
        \A i \in 1..Len(right_view.fields) :
            LET frame_idx == right_view.fields[i].field.frame_idx
                now == EntryOf(merged.new_fields, ShownAs(i)).field.frame_idx IN
            FromRight(i) =>
                /\ now = right_frame_indices[frame_idx + 1]
                /\ now < Len(new_frames)
                /\ new_frames[now + 1] = right_view.frames[frame_idx + 1]
                /\ \A e \in 1..now : new_frames[e] # right_view.frames[frame_idx + 1]
                /\ PairwiseDistinct(left_view.frames \o right_view.frames)
                      => now = frame_idx + Len(left_view.frames)

\* C18 witness: the right view's second frame wraps the left view's store,
\* so its field is referred to frame 0 of the combined list.
C18_Witness ==
    /\ pc = "merged" /\ merged.ok
    /\ left_view.frames = <<"s1">>
    /\ right_view.frames = <<"s2", "s1">>
    /\ Idents(right_view.fields) = <<"K", "B">>
    /\ right_view.fields[2].field.frame_idx = 1
    /\ right_frame_indices = <<1, 0>>
    /\ EntryOf(merged.new_fields, "B").field.frame_idx = 0

\* ---------------------------------------------------------------------
\* DataIndex::to_vec and DataIndex::to_value_vec
\* ---------------------------------------------------------------------

\* Value::cloned: the same value, owning its payload
cloned(value) == value

\* mutant: a missing value is collected as the default payload
to_vec_with_default(column) ==
    [i \in 1..Len(column) |->
        IF exists(get_datum(column, i - 1)) THEN get_datum(column, i - 1).v ELSE 0]

\* to_vec: self.iter().filter_map(..).collect()
RECURSIVE to_vec(_)
to_vec(column) ==
    IF column = <<>> THEN <<>>
    ELSE IF exists(Head(column))
         THEN <<Head(column).v>> \o to_vec(Tail(column))
         ELSE to_vec(Tail(column))

\* to_value_vec: self.iter().map(|value| value.cloned()).collect()
to_value_vec(column) == [i \in 1..Len(column) |-> cloned(get_datum(column, i - 1))]

InitConvert ==
    /\ pc = "column"
    /\ data \in SeqsOf(KeyValues, 0, MaxColLen)
    /\ method = "none"
    /\ idleMerge /\ idleSort /\ idleCmp /\ idleIter /\ idleExt

ToVec ==
    /\ pc = "column"
    /\ out' = to_vec(data)
    /\ method' = "to_vec"
    /\ pc' = "collected"
    /\ UNCHANGED <<data, closure, calls, updates, viewVars>>
    /\ UNCHANGED <<storeVars, joinVars>>
    /\ UNCHANGED <<mergeVars, sortVars, cmpVars, iterVars>>

ToValueVec ==
    /\ pc = "column"
    /\ out' = to_value_vec(data)
    /\ method' = "to_value_vec"
    /\ pc' = "collected"
    /\ UNCHANGED <<data, closure, calls, updates, viewVars>>
    /\ UNCHANGED <<storeVars, joinVars>>
    /\ UNCHANGED <<mergeVars, sortVars, cmpVars, iterVars>>

NextConvert == ToVec \/ ToValueVec

SpecConvert == InitConvert /\ [][NextConvert]_vars

\* the indices of the existing values of a column, in index order
ExistingIdx(column) == {i \in 0..(Len(column) - 1) : get_datum(column, i).ex}

\* the number of existing values among the first n of a column
RECURSIVE CountExisting(_, _)
CountExisting(column, n) ==
    IF n = 0 THEN 0
    ELSE CountExisting(column, n - 1) + (IF column[n].ex THEN 1 ELSE 0)

\* C19: to_vec returns the existing values in index order and nothing else
\* (as many items as there are existing values, fewer than len() when a
\* value is missing); to_value_vec returns exactly len() values, the i-th
\* equal to get_datum(i), missing ones preserved; neither call changes the
\* column.
C19_ConvertKeepsColumn ==
    [][/\ data' = data
       /\ method' = "to_vec" =>
             /\ Len(out') = CountExisting(data, Len(data))
             /\ \A i \in ExistingIdx(data) :
                   out'[CountExisting(data, i + 1)] = get_datum(data, i).v
             /\ (\E i \in 0..(Len(data) - 1) : ~get_datum(data, i).ex)
                   => Len(out') < Len(data)
       /\ method' = "to_value_vec" =>
             /\ Len(out') = Len(data)
             /\ \A i \in 0..(Len(data) - 1) : out'[i + 1] = get_datum(data, i)]_vars

\* C19 witness: to_vec has dropped the missing value of a three-value column.
C19_Witness ==
    /\ pc = "collected" /\ method = "to_vec"
    /\ data = <<Exists(2), Na, Exists(1)>>
    /\ out = <<2, 1>>

\* ---------------------------------------------------------------------
\* DataIterator::map_values and ValueMap::next
\* ---------------------------------------------------------------------

\* the functions handed to map_values: a shift, a reversal and a constant
MapFns ==
    {[v \in 1..NumKeys |-> v + 1],
     [v \in 1..NumKeys |-> NumKeys + 1 - v],
     [v \in 1..NumKeys |-> 1]}

\* Value::map: apply f to an existing payload, keep a missing value
value_map(value, f) == IF exists(value) THEN Exists(f[value.v]) ELSE Na

\* DataIterator::next, as the Option it returns
iter_next(column, p, idx) ==
    IF \/ is_permuted(p) /\ idx < perm_len(p)
       \/ ~is_permuted(p) /\ idx < Len(column)
    THEN Some(get_datum(column, map_index(p, idx)))
    ELSE None

\* mutant: the wrapped iterator's item is passed on as it is
value_map_next_unmapped(inner, f) == inner

\* ValueMap::next: self.iter.next().map(|value| value.map(&mut self.f))
value_map_next(inner, f) ==
    IF inner.some THEN Some(value_map(inner.value, f)) ELSE None

\* a column and the function that will be mapped over it
InitMap ==
    /\ pc = "column"
    /\ data \in SeqsOf(KeyValues, 0, MaxColLen)
    /\ method = "none"
    /\ closure \in MapFns
    /\ calls = <<>> /\ out = <<>>
    /\ updates = <<>>
    /\ idleMerge /\ idleSort /\ idleCmp /\ idleIter /\ idleView /\ idleStore /\ idleJoin

\* DataIterator::map_values: wrap the iterator
MapValues ==
    /\ pc = "iterating"
    /\ pc' = "mapping"
    /\ UNCHANGED <<method, data, iterVars, mergeVars, sortVars, cmpVars, extVars>>

\* ValueMap::next
ValueMapNext ==
    /\ pc \in {"mapping", "mapped"}
    /\ LET inner == iter_next(data, permutation, cur_idx) IN
          /\ last' = value_map_next(inner, closure)
          /\ IF inner.some
             THEN /\ items' = Append(items, inner.value)
                  /\ out' = Append(out, last'.value)
                  /\ calls' = IF exists(inner.value) THEN Append(calls, inner.value.v)
                              ELSE calls
                  /\ cur_idx' = cur_idx + 1
                  /\ pc' = pc
             ELSE /\ pc' = "mapped"
                  /\ UNCHANGED <<items, out, calls, cur_idx>>
    /\ UNCHANGED <<method, data, permutation, requested, result, closure>>
    /\ UNCHANGED <<mergeVars, sortVars, cmpVars, updates, viewVars>>
    /\ UNCHANGED <<storeVars, joinVars>>

NextMap == Iter \/ Permute \/ MapValues \/ ValueMapNext

SpecMap == InitMap /\ [][NextMap]_vars

\* what the wrapped iterator yields when run to its end
WrappedItems ==
    IF permutation.some
    THEN [k \in 1..Len(permutation.perm) |-> data[permutation.perm[k] + 1]]
    ELSE data

\* the payloads of the existing values of a sequence, in order
RECURSIVE Payloads(_)
Payloads(s) ==
    IF s = <<>> THEN <<>>
    ELSE IF Head(s).ex THEN <<Head(s).v>> \o Payloads(Tail(s))
    ELSE Payloads(Tail(s))

\* C20: map_values(f) yields as many items as the wrapped iterator, in the
\* same order: Exists(f(v)) where the wrapped item is Exists(v), Missing
\* where it is Missing; f is applied to the existing payloads only.
C20_MapValuesPreservesMissing ==
    pc \in {"mapping", "mapped"} =>
        /\ Len(out) <= Len(WrappedItems)
        /\ \A k \in 1..Len(out) :
              out[k] = IF WrappedItems[k].ex
                       THEN [ex |-> TRUE, v |-> closure[WrappedItems[k].v]]
                       ELSE Na
        /\ calls = Payloads(SubSeq(WrappedItems, 1, Len(out)))
        /\ pc = "mapped" => (Len(out) = Len(WrappedItems) /\ last = None)

\* C20 witness: a permuted iterator over a column with a missing value,
\* mapped to its end with the reversal.
C20_Witness ==
    /\ pc = "mapped"
    /\ data = <<Exists(1), Na, Exists(2)>>
    /\ requested = <<2, 1, 0>>
    /\ closure = [v \in 1..NumKeys |-> NumKeys + 1 - v]
    /\ out = <<Exists(1), Na, Exists(2)>>
    /\ calls = <<2, 1>>

(***************************************************************************)
(* SpecStore: a DataStore built by a sequence of insert calls.             *)
(***************************************************************************)
MaxInserts == 3
StoreIdents == {"a", "b"}
ValueStrs == {"", "1", "true"}

InitStore ==
    /\ pc = "store"
    /\ data = <<>>
    /\ method = "none"
    /\ idleMerge /\ idleSort /\ idleCmp /\ idleIter /\ idleExt

\* DataStore::insert(field, value_str)
Insert ==
    /\ pc = "store"
    /\ ins.calls < MaxInserts
    /\ \E ident \in StoreIdents, ty \in FieldTypes, value_str \in ValueStrs :
         LET r == insert_into(ds, [ident |-> ident, ty |-> ty], value_str) IN
         /\ ds' = r.store
         /\ ins' = [ok |-> r.ok, calls |-> ins.calls + 1]
    /\ UNCHANGED <<pc, data, method, updates, funVars, viewVars, joinVars>>
    /\ UNCHANGED <<mergeVars, sortVars, cmpVars, iterVars>>

NextStore == Insert

SpecStore == InitStore /\ [][NextStore]_vars

\* the lengths of all columns of all five type maps
ColumnLengths(store) ==
    UNION {{Len(TypeData(store, ty)[k]) : k \in DOMAIN TypeData(store, ty)} : ty \in FieldTypes}

\* C23: after any sequence of insert calls is_homogeneous() is true exactly
\* when all columns of the five type maps have one length; empty maps do not
\* matter and a store without columns is homogeneous.
C23_HomogeneousIffEqualLengths ==
    pc = "store" =>
        /\ is_homogeneous(ds) <=> Cardinality(ColumnLengths(ds)) <= 1
        /\ ColumnLengths(ds) = {} => is_homogeneous(ds)

\* columns of different length in two different type maps, a third map empty
C23_Witness ==
    /\ pc = "store"
    /\ ~is_homogeneous(ds)
    /\ \E t1, t2 \in FieldTypes :
         /\ t1 # t2
         /\ \E k1 \in DOMAIN TypeData(ds, t1), k2 \in DOMAIN TypeData(ds, t2) :
              Len(TypeData(ds, t1)[k1]) # Len(TypeData(ds, t2)[k2])
    /\ ds.unsigned = EmptyMap

\* the registry (fields, field_map) and the type maps agree
RegistryAgrees(store) ==
    /\ \A i, k \in 1..Len(store.fields) :
         store.fields[i].ident = store.fields[k].ident => i = k
    /\ \A ident \in DOMAIN store.field_map :
         /\ store.field_map[ident] < Len(store.fields)
         /\ store.fields[store.field_map[ident] + 1].ident = ident
    /\ \A i \in 1..Len(store.fields) :
         store.fields[i].ident \in DOMAIN TypeData(store, store.fields[i].ty)
    /\ \A ident \in DOMAIN store.field_map : get_field_data(store, ident).some

\* C30: after any sequence of insert calls, successful or failed, every ident
\* is registered once, field_map points at its field, every registered field
\* has a column in the map of its recorded type (get_field_data is Some), and
\* a failed insert leaves the store unchanged.
C30_RegistryMatchesStorage ==
    [][pc = "store" => /\ RegistryAgrees(ds')
                       /\ ~ins'.ok => ds' = ds]_vars

(***************************************************************************)
(* SpecMergeFair: merge_field_data as a running loop: an iteration that    *)
(* can be taken is eventually taken.  Followed to termination on key       *)
(* columns up to MaxFairLen and on the tables of the join tests.           *)
(***************************************************************************)
MaxFairLen == 2

InitMergeFair ==
    /\ pc = "merge"
    /\ \/ /\ left_key_data \in SeqsOf(KeyValues, 1, MaxFairLen)
          /\ right_key_data \in SeqsOf(KeyValues, 1, MaxFairLen)
       \/ left_key_data = EmpDeptId /\ right_key_data \in DeptIds
    /\ left_perm = sort_order(left_key_data)
    /\ right_perm = sort_order(right_key_data)
    /\ predicate \in Predicates
    /\ left_idx = 0 /\ right_idx = 0
    /\ merge_indices = <<>>
    /\ iterations = 0
    /\ data = <<>>
    /\ method = "merge_field_data"
    /\ idleSort /\ idleCmp /\ idleIter /\ idleExt

SpecMergeFair == InitMergeFair /\ [][NextMerge]_vars /\ WF_vars(NextMerge)

\* one pass through the loop body (either arm)
LoopIteration == pc = "merge" /\ iterations' = iterations + 1

\* C24: the merge loop always terminates: the cursors start at 0 and never
\* decrease, every iteration (Add or Advance, any predicate) is taken only
\* while both cursors are inside their sides and moves at least one cursor
\* forward, so there are at most len(left) + len(right) iterations and the
\* function returns.
C24_MergeLoopTerminates ==
    /\ [][/\ left_idx' >= left_idx /\ right_idx' >= right_idx
          /\ LoopIteration =>
                /\ left_idx < Len(left_perm) /\ right_idx < Len(right_perm)
                /\ left_idx' > left_idx \/ right_idx' > right_idx]_vars
    /\ [](iterations = 0 => left_idx = 0 /\ right_idx = 0)
    /\ [](iterations <= Len(left_perm) + Len(right_perm))
    /\ <>(pc = "merged")

\* a returned merge that took both arms and several iterations
C24_Witness ==
    /\ pc = "merged"
    /\ iterations > MaxFairLen
    /\ merge_indices # <<>>
    /\ Len(merge_indices) < iterations

\* the relation a predicate stands for, on the outcome of the comparison
Satisfies(p, c) ==
    CASE p = "Equal" -> c = "Equal"
      [] p = "LessThan" -> c = "Less"
      [] p = "LessThanEqual" -> c \in {"Less", "Equal"}
      [] p = "GreaterThan" -> c = "Greater"
      [] OTHER -> c \in {"Greater", "Equal"}

\* the side that is too small for the relation to hold
TooSmall(p, c) ==
    CASE p = "Equal" -> IF c = "Less" THEN "left" ELSE "right"
      [] p \in {"GreaterThan", "GreaterThanEqual"} -> "left"
      [] OTHER -> "right"

\* the comparison the claim describes: Missing below every existing value
ThreeWay(l, r) ==
    IF ~exists(l) /\ ~exists(r) THEN "Equal"
    ELSE IF ~exists(l) THEN "Less"
    ELSE IF ~exists(r) THEN "Greater"
    ELSE IF l.v < r.v THEN "Less" ELSE IF l.v > r.v THEN "Greater" ELSE "Equal"

ApplyAsDescribed(p, l, r) ==
    LET res == apply(p, l, r)
        c == ThreeWay(l, r) IN
    /\ res.add <=> Satisfies(p, c)
    /\ ~res.add =>
         /\ res.left # res.right
         /\ res.left <=> TooSmall(p, c) = "left"
         /\ res.right <=> TooSmall(p, c) = "right"

\* C25: Predicate::apply returns Add exactly when the three-way comparison of
\* left against right (Missing lowest, Missing = Missing) satisfies the
\* predicate's relation, and otherwise Advance with exactly one flag: the
\* left flag when the left value is too small, the right flag when the right
\* value is; stated of the pair the merge loop hands to apply.
C25_ApplyFollowsComparison ==
    InLoop => ApplyAsDescribed(predicate, lval(left_idx), rval(right_idx))

\* the first iteration compared a missing left key with an existing right key
\* under Equal and moved the left cursor only
C25_Witness ==
    /\ pc = "merge"
    /\ predicate = "Equal"
    /\ iterations = 1
    /\ ~exists(lval(0)) /\ exists(rval(0))
    /\ left_idx = 1 /\ right_idx = 0
    /\ merge_indices = <<>>

\* perm is a bijection on the indices 0..n-1
is_bijection(perm, n) ==
    /\ Len(perm) = n
    /\ \A i \in 1..n : perm[i] \in 0..(n - 1)
    /\ \A i, k \in 1..n : perm[i] = perm[k] => i = k

\* C27: with left_perm and right_perm bijections on their columns' indices,
\* merge_field_data never emits the same index pair twice, for every predicate.
C27_NoPairTwice ==
    (/\ pc = "merged"
     /\ is_bijection(left_perm, Len(left_key_data))
     /\ is_bijection(right_perm, Len(right_key_data)))
        => \A i, k \in 1..Len(merge_indices) : merge_indices[i] = merge_indices[k] => i = k

\* a returned GreaterThanEqual merge in which a left row and a right row both
\* occur in several pairs
C27_Witness ==
    /\ pc = "merged"
    /\ predicate = "GreaterThanEqual"
    /\ \E i, k, n \in 1..Len(merge_indices) :
         /\ i # k /\ merge_indices[i][1] = merge_indices[k][1]
         /\ i # n /\ merge_indices[i][2] = merge_indices[n][2]

\* the right field of a given name
RightField(name) == EntryOf(right_view.fields, name)

\* entry e of the merged list is left field i: the join key possibly renamed
\* to "K.0", any other field with its name unchanged; frame index kept
IsLeftField(e, i) ==
    LET f == left_view.fields[i] IN
    IF KeyRenamed /\ f.ident = join.left_ident
    THEN /\ e.ident = f.ident \o ".0"
         /\ e.field.rident.ident = f.field.rident.ident
         /\ e.field.frame_idx = f.field.frame_idx
    ELSE e = f

\* entry e of the merged list stems from the right field of a given name
IsRightField(e, name) ==
    /\ e.ident = (IF KeyRenamed /\ name = join.right_ident THEN name \o ".1" ELSE name)
    /\ e.field.rident.ident = RightField(name).field.rident.ident

\* C28: whenever compute_merged_field_list succeeds no left field is dropped
\* or overwritten: the result has |left fields| + |right_idents| entries, the
\* first |left fields| are the left fields at their positions (the key
\* possibly renamed "K.0"), and the remaining entries correspond one to one,
\* in order, to right_idents; for every choice of field names.
C28_NoLeftFieldDropped ==
    (pc = "merged" /\ merged.ok) =>
        LET nl == Len(left_view.fields)
            nr == Len(merged.right_idents)
            nf == merged.new_fields IN
        /\ Len(nf) = nl + nr
        /\ \A i \in 1..nl : IsLeftField(nf[i], i)
        /\ \A k \in 1..nr : IsRightField(nf[nl + k], merged.right_idents[k])

\* C29: for every right frame k the index compute_merged_frames records is
\* inside the combined frame list and addresses a frame with the store of
\* right.frames[k]; hence the frame_idx of every right-derived field of the
\* merged field list addresses the frame the field referenced in the right view.
C29_RightFramesAddressSameStore ==
    /\ pc \in {"framed", "merged"} =>
         /\ Len(right_frame_indices) = Len(right_view.frames)
         /\ \A k \in 1..Len(right_view.frames) :
              /\ right_frame_indices[k] < Len(new_frames)
              /\ has_same_store(get_datum(new_frames, right_frame_indices[k]),
                                right_view.frames[k])
    /\ (pc = "merged" /\ merged.ok) =>
         \A i \in 1..Len(right_view.fields) :
            FromRight(i) =>
                LET e == EntryOf(merged.new_fields, ShownAs(i)) IN
                /\ e.field.frame_idx < Len(new_frames)
                /\ has_same_store(get_datum(new_frames, e.field.frame_idx),
                                  get_datum(right_view.frames, right_view.fields[i].field.frame_idx))

\* one right frame is found among the left frames, another is appended, and
\* a right field of each is in the merged list
C29_Witness ==
    /\ pc = "merged" /\ merged.ok
    /\ \E i, n \in 1..Len(right_view.fields) :
         /\ FromRight(i) /\ FromRight(n)
         /\ right_frame_indices[right_view.fields[i].field.frame_idx + 1] < Len(left_view.frames)
         /\ right_frame_indices[right_view.fields[n].field.frame_idx + 1] >= Len(left_view.frames)

(***************************************************************************)
(* SpecJoin: sort_merge_join(left, right, join) over two views and the     *)
(* rows behind them.  The function is followed through its positions: the  *)
(* input checks, the merge loop (the actions of merge_field_data) and the  *)
(* materialization of the matched pairs.                                   *)
(***************************************************************************)
MaxRows == 2

\* a view over one store with the given field names, in frame 0
ViewOver(store, names) ==
    [fields |-> [i \in 1..Len(names) |->
                    Entry(names[i], ViewField(names[i], NotRenamed, 0))],
     frames |-> <<store>>]

\* the rows behind a view: per field its type and column.  The key column is
\* given; row i of any other field holds a value that tells field and row.
TableOf(names, key, key_ty, key_column, base) ==
    [name \in {names[i] : i \in 1..Len(names)} |->
        IF name = key
        THEN [ty |-> key_ty, data |-> key_column]
        ELSE [ty |-> "Unsigned",
              data |-> [i \in 1..Len(key_column) |->
                          Exists(base + 10 * NamePos(names, name) + i - 1)]]]

\* DataView::has_field
has_field(view, ident) == contains_key(view.fields, ident)

\* DataView::get_field_type, for a field the view has
get_field_type(cols, ident) == cols[ident].ty

\* DataView::nrows and DataView::is_empty
nrows(view, cols) ==
    IF view.fields = <<>> THEN 0 ELSE Len(cols[view.fields[1].ident].data)
is_empty(view, cols) == nrows(view, cols) = 0

\* Result<DataStore> of sort_merge_join; "panicked" when it does not return
JoinOk(store) == [status |-> "Ok", name |-> "", collisions |-> <<>>, ds |-> store]
JoinErr(status, name) == [status |-> status, name |-> name, collisions |-> <<>>, ds |-> <<>>]
JoinCollision(names) ==
    [status |-> "FieldCollision", name |-> "", collisions |-> names, ds |-> <<>>]
JoinPanicked == [status |-> "panicked", name |-> "", collisions |-> <<>>, ds |-> <<>>]
Continue == [status |-> "continue", name |-> "", collisions |-> <<>>, ds |-> <<>>]

\* mutant: the emptiness of the views is tested before the key types
early_return_empty_first(l, r, t, j) ==
    IF ~has_field(l, j.left_ident)
    THEN JoinErr("FieldNotFound", j.left_ident)
    ELSE IF ~has_field(r, j.right_ident)
    THEN JoinErr("FieldNotFound", j.right_ident)
    ELSE IF is_empty(l, t.left) \/ is_empty(r, t.right)
    THEN JoinOk(<<>>)
    ELSE IF get_field_type(t.left, j.left_ident) # get_field_type(t.right, j.right_ident)
    THEN JoinErr("TypeMismatch", "")
    ELSE Continue

\* the four input checks of sort_merge_join, in order
early_return(l, r, t, j) ==
    IF ~has_field(l, j.left_ident)
    THEN JoinErr("FieldNotFound", j.left_ident)
    ELSE IF ~has_field(r, j.right_ident)
    THEN JoinErr("FieldNotFound", j.right_ident)
    ELSE IF get_field_type(t.left, j.left_ident) # get_field_type(t.right, j.right_ident)
    THEN JoinErr("TypeMismatch", "")
    ELSE IF is_empty(l, t.left) \/ is_empty(r, t.right)
    THEN JoinOk(<<>>)
    ELSE Continue

\* RFieldIdent::to_renamed_field_ident
to_renamed_field_ident(rident) ==
    IF rident.rename.some THEN rident.rename.name ELSE rident.ident

\* CopyInto: the value is appended to the target field of the target store,
\* which is created on first use
CopyInto(store, target_ident, ty, value) ==
    IF \E i \in 1..Len(store) : store[i].ident = target_ident
    THEN LET i == CHOOSE i \in 1..Len(store) : store[i].ident = target_ident IN
         [store EXCEPT ![i].data = Append(@, value)]
    ELSE Append(store, [ident |-> target_ident, ty |-> ty, data |-> <<value>>])

\* view.map_ext(ident, CopyInto { src_idx, target_ident, target_ds })
map_ext(cols, ident, src_idx, target_ident, store) ==
    CopyInto(store, target_ident, cols[ident].ty, get_datum(cols[ident].data, src_idx))

\* mutant: every row is copied from the source row of the first pair
RECURSIVE CopyRowsFirst(_, _, _, _, _, _)
CopyRowsFirst(store, cols, ident, target_ident, src, k) ==
    IF k > Len(src) THEN store
    ELSE CopyRowsFirst(map_ext(cols, ident, src[1], target_ident, store),
                       cols, ident, target_ident, src, k + 1)

\* for (idx, _) in &merge_indices { view.map_ext(ident, CopyInto { .. })?; }
RECURSIVE CopyRows(_, _, _, _, _, _)
CopyRows(store, cols, ident, target_ident, src, k) ==
    IF k > Len(src) THEN store
    ELSE CopyRows(map_ext(cols, ident, src[k], target_ident, store),
                  cols, ident, target_ident, src, k + 1)

\* for ident in idents { copy its rows to new_field_idents[field_idx]; field_idx += 1 }
\* indexing new_field_idents past its end panics
RECURSIVE CopyFields(_, _, _, _, _, _, _)
CopyFields(acc, cols, idents, new_field_idents, field_idx, src, k) ==
    IF k > Len(idents) \/ acc.panicked THEN acc
    ELSE IF src # <<>> /\ field_idx >= Len(new_field_idents)
    THEN [acc EXCEPT !.panicked = TRUE]
    ELSE CopyFields(
            [acc EXCEPT !.store =
                IF src = <<>> THEN @
                ELSE CopyRows(@, cols, idents[k], get_datum(new_field_idents, field_idx), src, 1)],
            cols, idents, new_field_idents, field_idx + 1, src, k + 1)

\* sort_merge_join after the merge: field list, then the two copy loops
materialize(l, r, t, j, pairs, m) ==
    IF ~m.ok THEN JoinCollision(m.collisions)
    ELSE LET new_field_idents ==
                [i \in 1..Len(m.new_fields) |->
                    to_renamed_field_ident(m.new_fields[i].field.rident)]
             from_left == CopyFields([panicked |-> FALSE, store |-> <<>>], t.left,
                                     Idents(l.fields), new_field_idents, 0,
                                     [i \in 1..Len(pairs) |-> pairs[i][1]], 1)
             from_right == CopyFields(from_left, t.right, m.right_idents,
                                      new_field_idents, Len(l.fields),
                                      [i \in 1..Len(pairs) |-> pairs[i][2]], 1) IN
         IF from_right.panicked THEN JoinPanicked ELSE JoinOk(from_right.store)

\* schemas and join keys of the joins that are followed through the merge
JoinCases ==
    {[l |-> <<"K", "A">>, r |-> <<"K", "B">>, a |-> "K", b |-> "K"],
     [l |-> <<"A", "K">>, r |-> <<"B", "K">>, a |-> "K", b |-> "K"],
     [l |-> <<"K", "A">>, r |-> <<"B", "C">>, a |-> "K", b |-> "B"],
     [l |-> <<"K", "A">>, r |-> <<"K", "A">>, a |-> "K", b |-> "K"],
     [l |-> <<"K", "A">>, r |-> <<"K", "B">>, a |-> "A", b |-> "B"],
     [l |-> <<"K", "B">>, r |-> <<"B", "C">>, a |-> "K", b |-> "B"],
     [l |-> <<"K", "K.0">>, r |-> <<"K", "B">>, a |-> "K", b |-> "K"],
     [l |-> <<"K">>, r |-> <<"K.1", "K">>, a |-> "K", b |-> "K"]}

\* schemas of the joins whose inputs are checked; rows are empty or single
CheckLeft == {<<"K">>, <<"K", "A">>, <<"A">>}
CheckRight == {<<"K">>, <<"K", "B">>, <<"B">>, <<"K", "A">>}
OneRow(n) == [i \in 1..n |-> Exists(1)]

InitJoin ==
    /\ pc = "join"
    /\ method = "sort_merge_join"
    /\ \/ \E c \in JoinCases, lk, rk \in SeqsOf(KeyValues, 0, MaxRows) :
            /\ left_view = ViewOver("s1", c.l)
            /\ right_view = ViewOver("s2", c.r)
            /\ join \in {Join(p, c.a, c.b) : p \in Predicates}
            /\ tables = [left |-> TableOf(c.l, c.a, "Unsigned", lk, 0),
                         right |-> TableOf(c.r, c.b, "Unsigned", rk, 100)]
       \/ \E ln \in CheckLeft, rn \in CheckRight, n, k \in 0..1,
             a \in {"K", "A"}, b \in {"K", "B"}, ty \in {"Unsigned", "Text"} :
            /\ left_view = ViewOver("s1", ln)
            /\ right_view = ViewOver("s2", rn)
            /\ join \in {Join(p, a, b) : p \in {"Equal", "LessThan"}}
            /\ tables = [left |-> TableOf(ln, a, "Unsigned", OneRow(n), 0),
                         right |-> TableOf(rn, b, ty, OneRow(k), 100)]
    /\ joined = NotJoined
    /\ new_frames = <<>>
    /\ right_frame_indices = <<>>
    /\ merged = NotMerged
    /\ data = <<>>
    /\ updates = <<>>
    /\ idleMerge /\ idleSort /\ idleCmp /\ idleIter /\ idleFun /\ idleStore

\* one of the four input checks applies: the function returns
JoinEarlyReturn ==
    /\ pc = "join"
    /\ LET res == early_return(left_view, right_view, tables, join) IN
          /\ res.status # "continue"
          /\ joined' = res
    /\ pc' = "joined"
    /\ UNCHANGED <<method, data, mergeVars, sortVars, cmpVars, iterVars, updates, funVars>>
    /\ UNCHANGED <<viewVars, storeVars, tables>>

\* the checks pass: the sorted orders of both keys are taken and handed to
\* merge_field_data with the key columns and the predicate
JoinSort ==
    /\ pc = "join"
    /\ early_return(left_view, right_view, tables, join).status = "continue"
    /\ left_key_data' = tables.left[join.left_ident].data
    /\ right_key_data' = tables.right[join.right_ident].data
    /\ left_perm' = sort_order(tables.left[join.left_ident].data)
    /\ right_perm' = sort_order(tables.right[join.right_ident].data)
    /\ predicate' = join.predicate
    /\ pc' = "merge"
    /\ UNCHANGED <<left_idx, right_idx, merge_indices, iterations>>
    /\ UNCHANGED <<method, data, sortVars, cmpVars, iterVars, updates, funVars>>
    /\ UNCHANGED <<viewVars, storeVars, joinVars>>

\* merge_field_data has returned: frames, field list and the copy loops
JoinMaterialize ==
    /\ pc = "merged"
    /\ method = "sort_merge_join"
    /\ LET frames == compute_merged_frames(left_view, right_view)
           m == compute_merged_field_list(left_view, right_view,
                                          frames.right_frame_indices, join) IN
          /\ new_frames' = frames.new_frames
          /\ right_frame_indices' = frames.right_frame_indices
          /\ merged' = m
          /\ joined' = materialize(left_view, right_view, tables, join, merge_indices, m)
    /\ pc' = "joined"
    /\ UNCHANGED <<left_view, right_view, join, tables>>
    /\ UNCHANGED <<method, data, mergeVars, sortVars, cmpVars, iterVars, updates, funVars>>
    /\ UNCHANGED storeVars

NextJoin ==
    JoinEarlyReturn \/ JoinSort \/ MergeAdd \/ MergeAdvance \/ MergeReturn \/ JoinMaterialize

SpecJoin == InitJoin /\ [][NextJoin]_vars

\* every column behind a view is without rows
NoRows(cols) == \A name \in DOMAIN cols : cols[name].data = <<>>

\* neither sort_order nor merge_field_data nor the field list was run
NothingMerged ==
    /\ left_perm = <<>> /\ right_perm = <<>>
    /\ left_idx = 0 /\ right_idx = 0 /\ iterations = 0
    /\ merge_indices = <<>>
    /\ merged = NotMerged

\* C21: sort_merge_join checks its inputs in a fixed order and returns at the
\* first check that applies: left lacks join.left_ident: FieldNotFound of
\* that name; right lacks join.right_ident: FieldNotFound of that name; the
\* key types differ: TypeMismatch; a view is empty: Ok with a store without
\* fields and rows.  Nothing is sorted or merged in these cases.
C21_ChecksInOrder ==
    pc = "joined" =>
        LET lacks_left == join.left_ident \notin FieldIdents(left_view)
            lacks_right == join.right_ident \notin FieldIdents(right_view)
            types_differ == tables.left[join.left_ident].ty # tables.right[join.right_ident].ty
            a_view_empty == NoRows(tables.left) \/ NoRows(tables.right) IN
        IF lacks_left
        THEN joined = JoinErr("FieldNotFound", join.left_ident) /\ NothingMerged
        ELSE IF lacks_right
        THEN joined = JoinErr("FieldNotFound", join.right_ident) /\ NothingMerged
        ELSE IF types_differ
        THEN joined.status = "TypeMismatch" /\ NothingMerged
        ELSE IF a_view_empty
        THEN joined.status = "Ok" /\ joined.ds = <<>> /\ NothingMerged
        ELSE left_perm # <<>> /\ right_perm # <<>>

\* the key types differ and a view is empty: TypeMismatch is what is returned
C21_Witness ==
    /\ pc = "joined"
    /\ join.left_ident \in FieldIdents(left_view)
    /\ join.right_ident \in FieldIdents(right_view)
    /\ tables.left[join.left_ident].ty # tables.right[join.right_ident].ty
    /\ NoRows(tables.right)
    /\ joined.status = "TypeMismatch"

\* the join's keys are present and of one type
ValidJoin ==
    /\ join.left_ident \in FieldIdents(left_view)
    /\ join.right_ident \in FieldIdents(right_view)
    /\ tables.left[join.left_ident].ty = tables.right[join.right_ident].ty

\* the field names both views have, the key of a join on one shared name apart
Offending ==
    {name \in FieldIdents(left_view) \cap FieldIdents(right_view) : ~SharedKey(name)}

\* the result is a FieldCollision that names every offending field
CollisionNamesAll ==
    /\ joined.status = "FieldCollision"
    /\ \A name \in Offending :
         \E i \in 1..Len(joined.collisions) : joined.collisions[i] = name

\* C22: sort_merge_join fails with FieldCollision naming every offending
\* field whenever the views share a field name that is not the join key on
\* both sides, for every valid join, whatever the rows of the views are.
C22_SharedNameFails ==
    (pc = "joined" /\ ValidJoin /\ Offending # {}) => CollisionNamesAll

\* C22 amended: the same, for views that both have at least one row; with a
\* view without rows the join returns an empty store before any field name
\* is looked at.
C22_SharedNameFailsWithRows ==
    (pc = "joined" /\ ValidJoin /\ Offending # {}) =>
        IF NoRows(tables.left) \/ NoRows(tables.right)
        THEN joined = JoinOk(<<>>) /\ NothingMerged
        ELSE CollisionNamesAll

\* pairs were matched, and the join failed on a shared name that is the key
\* of the right side only
C22_Witness ==
    /\ pc = "joined"
    /\ ValidJoin
    /\ join.right_ident \in Offending
    /\ merge_indices # <<>>
    /\ joined = JoinCollision(<<join.right_ident>>)

\* the output field of a given name
OutField(name) == joined.ds[CHOOSE i \in 1..Len(joined.ds) : joined.ds[i].ident = name]
HasOutField(name) == \E i \in 1..Len(joined.ds) : joined.ds[i].ident = name

\* the name the merged field list gives to a left field / to a right field
LeftShownAs(name) ==
    IF KeyRenamed /\ name = join.left_ident THEN name \o ".0" ELSE name
RightShownAs(name) ==
    IF KeyRenamed /\ name = join.right_ident THEN name \o ".1" ELSE name

\* the output field `shown` holds, row by row, the value of the source column
\* at the row the pair names on that side
RowsFollowPairs(shown, column, side) ==
    /\ HasOutField(shown)
    /\ Len(OutField(shown).data) = Len(merge_indices)
    /\ \A k \in 1..Len(merge_indices) :
         OutField(shown).data[k] = get_datum(column, merge_indices[k][side])

\* C26: on success the store built by sort_merge_join has one row per
\* matched pair, in pair order, aligned across fields: row k of a field
\* derived from a left field is that field's value at the left row of pair
\* k, row k of a field derived from a right field is that field's value at
\* the right row of pair k, each under the name its entry has in the merged
\* field list; all output fields have the same number of rows.
C26_RowsFollowPairs ==
    (pc = "joined" /\ joined.status = "Ok") =>
        /\ \A i \in 1..Len(joined.ds) : Len(joined.ds[i].data) = Len(merge_indices)
        /\ \A i, k \in 1..Len(joined.ds) : joined.ds[i].ident = joined.ds[k].ident => i = k
        /\ merge_indices # <<>> =>
             /\ \A i \in 1..Len(left_view.fields) :
                  LET name == left_view.fields[i].ident IN
                  /\ contains_key(merged.new_fields, LeftShownAs(name))
                  /\ RowsFollowPairs(LeftShownAs(name), tables.left[name].data, 1)
             /\ \A i \in 1..Len(merged.right_idents) :
                  LET name == merged.right_idents[i] IN
                  /\ contains_key(merged.new_fields, RightShownAs(name))
                  /\ RowsFollowPairs(RightShownAs(name), tables.right[name].data, 2)
             /\ Len(joined.ds) = Len(left_view.fields) + Len(merged.right_idents)

\* a LessThan join on a shared key returned four fields with two rows or
\* more, and some pair joins rows of different index
C26_Witness ==
    /\ pc = "joined" /\ joined.status = "Ok"
    /\ KeyRenamed
    /\ Len(merge_indices) >= 2
    /\ Len(joined.ds) = 4
    /\ \E k \in 1..Len(merge_indices) : merge_indices[k][1] # merge_indices[k][2]
    /\ merge_indices[1][1] # merge_indices[2][1]

====
